---- MODULE Spec2Model ----
(***************************************************************************)
(* A model of the PowerPoint Assistant generation pipeline:                *)
(*   - PowerPointOrchestrationChain.generate_presentation and its stages   *)
(*     (src/src/chains/orchestration_chain.py),                            *)
(*   - the four LLM chains' result parsers and fallbacks                   *)
(*     (src/src/chains/*_chain.py),                                        *)
(*   - the presentation builder's and the diagram generator's outcomes.    *)
(* External collaborators (LLM, document reader, renderer, template        *)
(* writer, progress observer) are nondeterministic choices of outcome.     *)
(***************************************************************************)
EXTENDS Integers, Sequences, FiniteSets, TLC

VARIABLES
    \* ---- arguments of one generate_presentation call and configuration
    uploaded_files,        \* sequence of per-file reader outcomes
    target_slide_count,    \* requested slide count
    has_callback,          \* progress_callback is not None
    enable_diagram_generation, \* settings.enable_diagram_generation
    \* ---- state of the orchestrator
    pc,                    \* position in generate_presentation
    current_status,        \* self.current_status (ProcessingStatus)
    observed,              \* stage names delivered to the progress observer
    extracted_content,     \* result of _process_documents
    document_analysis,     \* DocumentAnalysisResult
    project_analysis,      \* ProjectAnalysisResult
    diagram_generation_result, \* DiagramGenerationResult
    generation_result,     \* ContentGenerationResult
    presentation_path,     \* path returned by build_presentation
    diagram_insertion_results, \* dict returned by insert_diagrams_into_presentation
    exc,                   \* exception being handled by the top-level handler
    result,                \* value returned by generate_presentation
    failed,                \* stages in which a failure occurred during this call
    \* ---- one call of a single function (unit specifications)
    call_state,            \* "none" | "called" | "returned" | "raised"
    call_args,             \* the arguments of the call
    call_result,           \* the value returned, or the exception raised
    \* ---- overlapping generate_presentation calls on one orchestrator
    requests               \* per call: position, observer's deliveries, result

pvars == <<uploaded_files, target_slide_count, has_callback, enable_diagram_generation,
           pc, current_status, observed, extracted_content, document_analysis,
           project_analysis, diagram_generation_result, generation_result,
           presentation_path, diagram_insertion_results, exc, result, failed>>
uvars == <<call_state, call_args, call_result, requests>>
vars == <<pvars, uvars>>

(***************************************************************************)
(* Bounds of the model.                                                    *)
(***************************************************************************)
MaxFiles == 2          \* uploaded files per call

(***************************************************************************)
(* Generic helpers.                                                        *)
(***************************************************************************)
Range(s) == {s[i] : i \in 1..Len(s)}

Min(a, b) == IF a <= b THEN a ELSE b

Max(a, b) == IF a >= b THEN a ELSE b

\* Python's seq[:n] for n >= 0
Take(s, n) == SubSeq(s, 1, Min(n, Len(s)))

None == [kind |-> "none"]

(***************************************************************************)
(* JSON values and LLM responses.                                          *)
(* A decoded JSON value is [t |-> type, v |-> payload]; a list holds       *)
(* strings.  A response text is described by what the parsers look at:     *)
(* whether it holds a '{', whether it holds a '}', and what json.loads     *)
(* makes of the slice between them ("invalid" = JSONDecodeError, otherwise *)
(* the decoded object, a function from its keys to JSON values or, for the *)
(* slide and diagram lists, to sequences of entries).                      *)
(***************************************************************************)
JList(s) == [t |-> "list", v |-> s]

JStr(s) == [t |-> "str", v |-> s]

EmptyDict == [k \in {} |-> None]

\* What json.loads makes of the slice: a JSONDecodeError, or the decoded object.
Invalid == [ok |-> FALSE]

Decoded(d) == [ok |-> TRUE, obj |-> d]

Text(open, close, json) == [open |-> open, close |-> close, json |-> json]

\* result_text.find('{') == -1 or result_text.rfind('}') + 1 == 0
NoJsonFound(text) == ~text.open \/ ~text.close

Decodes(text) == ~NoJsonFound(text) /\ text.json.ok

\* An LLM call either raises or returns a text.
LLMRaises == [raises |-> TRUE]

LLMReturns(text) == [raises |-> FALSE, text |-> text]

\* dict.get(key, default)
Get(d, key, default) == IF key \in DOMAIN d THEN d[key] ELSE default

\* Outcome of a function that may raise.
Return(v) == [raised |-> FALSE, value |-> v]

Raise(e) == [raised |-> TRUE, error |-> e]

\* str(v) of a decoded JSON value
NumStr(n) == CASE n = 0 -> "0" [] n = 1 -> "1" [] OTHER -> "n"

PyStr(x) ==
    CASE x.t = "str"  -> x.v
      [] x.t = "num"  -> NumStr(x.v)
      [] x.t = "bool" -> (IF x.v THEN "True" ELSE "False")
      [] x.t = "null" -> "None"
      [] OTHER        -> "[...]"

\* Python truthiness of a decoded JSON value
Truthy(x) ==
    CASE x.t = "str"  -> x.v # ""
      [] x.t = "num"  -> x.v # 0
      [] x.t = "bool" -> x.v
      [] x.t = "null" -> FALSE
      [] OTHER        -> x.v # <<>>

(***************************************************************************)
(* DocumentAnalysisChain (src/src/chains/document_analysis_chain.py)       *)
(***************************************************************************)
DocRequiredFields == {"technologies", "approaches", "case_studies", "key_themes"}

DocOptionalFields == {"business_benefits", "challenges_addressed",
                      "implementation_patterns", "client_examples"}

\* DocumentAnalysisChain._parse_analysis_result
DocParseAnalysisResult(text) ==
    IF NoJsonFound(text)
    THEN Raise(<<"No JSON found in analysis result">>)
    ELSE IF ~text.json.ok
    THEN Return([technologies |-> JList(<<>>),
                 approaches   |-> JList(<<>>),
                 case_studies |-> JList(<<>>),
                 key_themes   |-> JList(<<"Analysis parsing failed: " >>)])
    ELSE LET d == text.json.obj IN
         Return([k \in DOMAIN d \cup DocRequiredFields |->
                   IF k \notin DOMAIN d THEN JList(<<>>)
                   ELSE IF k \in DocRequiredFields /\ d[k].t # "list"
                        THEN JList(<<PyStr(d[k])>>)
                        ELSE d[k]])

DocumentAnalysisResult(analysis, n, tech, appr, cases, themes) ==
    [analysis |-> analysis, source_documents |-> n, technologies |-> tech,
     approaches |-> appr, case_studies |-> cases, key_themes |-> themes]

DocAnalysisFailed(n, e) ==
    DocumentAnalysisResult(<<"Analysis failed: ">> \o e, n, <<>>, <<>>, <<>>, <<>>)

\* DocumentAnalysisChain.analyze_documents
AnalyzeDocuments(documents, llm) ==
    IF documents = <<>>
    THEN DocumentAnalysisResult(<<"No documents provided for analysis">>, 0,
                                <<>>, <<>>, <<>>, <<>>)
    ELSE IF llm.raises
    THEN DocAnalysisFailed(Len(documents), <<"LLM error">>)
    ELSE LET parsed == DocParseAnalysisResult(llm.text) IN
         IF parsed.raised
         THEN DocAnalysisFailed(Len(documents), parsed.error)
         ELSE LET d == parsed.value IN
              \* assigning a field the model does not declare raises
              IF DOMAIN d \cap DocOptionalFields # {}
              THEN DocAnalysisFailed(Len(documents), <<"object has no field">>)
              ELSE DocumentAnalysisResult(
                       <<"Analyzed documents for project">>, Len(documents),
                       d["technologies"].v, d["approaches"].v,
                       d["case_studies"].v, d["key_themes"].v)

(***************************************************************************)
(* ProjectAnalysisChain (src/src/chains/project_analysis_chain.py)         *)
(***************************************************************************)
ProjListFields == {"requirements", "technologies", "solution_approaches", "key_objectives"}

ProjExtendedFields == {"business_drivers", "technical_challenges", "success_criteria",
                       "presentation_focus", "value_propositions"}

DefaultAudience == JStr("Business stakeholders")

\* the project parser coercing every non-list value, an empty one included
ProjParseAnalysisResultCoercing(text) ==
    IF NoJsonFound(text)
    THEN Raise(<<"No JSON found in analysis result">>)
    ELSE IF ~text.json.ok
    THEN Return([requirements        |-> JList(<<"Analysis parsing failed: ">>),
                 technologies        |-> JList(<<>>),
                 solution_approaches |-> JList(<<>>),
                 target_audience     |-> DefaultAudience,
                 key_objectives      |-> JList(<<>>)])
    ELSE LET d == text.json.obj IN
         Return([k \in DOMAIN d \cup ProjListFields \cup {"target_audience"} |->
                   IF k \notin DOMAIN d
                   THEN (IF k = "target_audience" THEN DefaultAudience ELSE JList(<<>>))
                   ELSE IF k \in ProjListFields /\ d[k].t # "list"
                        THEN JList(<<PyStr(d[k])>>)
                        ELSE d[k]])

\* ProjectAnalysisChain._parse_analysis_result
ProjParseAnalysisResult(text) ==
    IF NoJsonFound(text)
    THEN Raise(<<"No JSON found in analysis result">>)
    ELSE IF ~text.json.ok
    THEN Return([requirements        |-> JList(<<"Analysis parsing failed: ">>),
                 technologies        |-> JList(<<>>),
                 solution_approaches |-> JList(<<>>),
                 target_audience     |-> DefaultAudience,
                 key_objectives      |-> JList(<<>>)])
    ELSE LET d == text.json.obj IN
         Return([k \in DOMAIN d \cup ProjListFields \cup {"target_audience"} |->
                   IF k \notin DOMAIN d
                   THEN (IF k = "target_audience" THEN DefaultAudience ELSE JList(<<>>))
                   ELSE IF k \in ProjListFields /\ d[k].t # "list"
                        THEN (IF Truthy(d[k]) THEN JList(<<PyStr(d[k])>>) ELSE JList(<<>>))
                        ELSE d[k]])

ProjectAnalysisResult(req, tech, appr, audience, obj, drivers, chall, crit, focus, props) ==
    [requirements |-> req, technologies |-> tech, solution_approaches |-> appr,
     target_audience |-> audience, key_objectives |-> obj, business_drivers |-> drivers,
     technical_challenges |-> chall, success_criteria |-> crit,
     presentation_focus |-> focus, value_propositions |-> props]

\* the except branch returning an empty result, without the explanation
ProjAnalysisFailedSilently(e) ==
    ProjectAnalysisResult(<<>>, <<>>, <<>>,
                          "Business stakeholders", <<>>, <<>>, <<>>, <<>>, <<>>, <<>>)

ProjAnalysisFailed(e) ==
    ProjectAnalysisResult(<<<<"Analysis failed: ">> \o e>>, <<>>, <<>>,
                          "Business stakeholders", <<>>, <<>>, <<>>, <<>>, <<>>, <<>>)

\* ProjectAnalysisChain.analyze_project
AnalyzeProject(llm) ==
    IF llm.raises
    THEN ProjAnalysisFailed(<<"LLM error">>)
    ELSE LET parsed == ProjParseAnalysisResult(llm.text) IN
         IF parsed.raised
         THEN ProjAnalysisFailed(parsed.error)
         ELSE LET d == parsed.value
                  L(k) == Get(d, k, JList(<<>>))
              IN  \* the model's field types are validated on construction
                  IF d["target_audience"].t # "str"
                     \/ \E k \in ProjExtendedFields \cap DOMAIN d : d[k].t # "list"
                  THEN ProjAnalysisFailed(<<"validation error">>)
                  ELSE ProjectAnalysisResult(
                           d["requirements"].v, d["technologies"].v,
                           d["solution_approaches"].v, d["target_audience"].v,
                           d["key_objectives"].v, L("business_drivers").v,
                           L("technical_challenges").v, L("success_criteria").v,
                           L("presentation_focus").v, L("value_propositions").v)

(***************************************************************************)
(* ContentGenerationChain (src/src/chains/content_generation_chain.py)     *)
(* A slide entry of the raw response is                                    *)
(*   "malformed": not an object, or lacking title or content (the parser   *)
(*                drops it),                                               *)
(*   "rejected":  has both keys but GeneratedSlide refuses it (empty       *)
(*                title, empty content list),                              *)
(*   "valid":     accepted.                                                *)
(* Scores are in hundredths.                                               *)
(***************************************************************************)
max_slides == 15

MinSlides == 3

SlideEntry(kind, id, rich) == [kind |-> kind, id |-> id, rich |-> rich]

\* GeneratedSlide: where it came from and what the confidence score reads of it
GeneratedSlide(src, id, rich) ==
    [src |-> src, id |-> id, long_title |-> rich, rich_content |-> rich,
     long_notes |-> rich]

JDict(f) == [t |-> "dict", v |-> f]

\* TemplateManager.get_default_slide_specs: five fixed slides
DefaultSlideSpecs == [i \in 1..5 |-> GeneratedSlide("default", i, TRUE)]

\* ContentGenerationChain._generate_fallback_slides
GenerateFallbackSlides(count) ==
    IF count <= Len(DefaultSlideSpecs)
    THEN (IF count >= 0
          THEN Take(DefaultSlideSpecs, count)
          ELSE Take(DefaultSlideSpecs, Max(Len(DefaultSlideSpecs) + count, 0)))
    ELSE DefaultSlideSpecs \o
         [i \in 1..(count - Len(DefaultSlideSpecs)) |-> GeneratedSlide("additional", i, TRUE)]

\* ContentGenerationChain._parse_generation_result
ParseGenerationResult(text) ==
    IF NoJsonFound(text)
    THEN Raise(<<"No JSON found in generation result">>)
    ELSE IF ~text.json.ok
    THEN Return([slides |-> <<>>,
                 presentation_metadata |-> JDict([k \in {"error"} |-> JStr("decode error")])])
    ELSE LET d      == text.json.obj
             slides == Get(d, "slides", JList(<<>>))
             meta   == Get(d, "presentation_metadata", JDict(EmptyDict))
         IN  IF slides.t \in {"num", "bool", "null"}
             THEN Raise(<<"object is not iterable">>)
             ELSE Return([slides |->
                             IF slides.t = "list"
                             THEN SelectSeq(slides.v, LAMBDA e : e.kind # "malformed")
                             ELSE <<>>,
                          presentation_metadata |-> meta])

\* ContentGenerationChain._calculate_confidence_score, in hundredths
ContentSlideBonus(slide) ==
    (IF slide.long_title THEN 5 ELSE 0) + (IF slide.rich_content THEN 5 ELSE 0)
    + (IF slide.long_notes THEN 2 ELSE 0)

RECURSIVE SumSlideBonus(_)
SumSlideBonus(slides) ==
    IF slides = <<>> THEN 0
    ELSE ContentSlideBonus(Head(slides)) + SumSlideBonus(Tail(slides))

ContentConfidenceScore(slides, metadata) ==
    LET base    == IF slides # <<>> THEN 30 ELSE 0
        n       == Len(slides)
        count   == IF 5 <= n /\ n <= 10 THEN 20
                   ELSE IF 3 <= n /\ n <= 15 THEN 10 ELSE 0
        flow    == IF "presentation_flow" \in DOMAIN metadata
                      /\ Truthy(metadata["presentation_flow"]) THEN 10 ELSE 0
        msgs    == IF "key_messages" \in DOMAIN metadata
                      /\ Truthy(metadata["key_messages"]) THEN 10 ELSE 0
    IN  Min(base + count + SumSlideBonus(slides) + flow + msgs, 100)

ContentGenerationResult(slides, metadata, score) ==
    [slides |-> slides, generation_metadata |-> metadata, confidence_score |-> score]

\* the except branch reporting no confidence at all
ContentFallbackUnscored(target, e) ==
    ContentGenerationResult(GenerateFallbackSlides(target),
                            [k \in {"error"} |-> e], 0)

\* the except branch of generate_content
ContentFallback(target, e) ==
    ContentGenerationResult(GenerateFallbackSlides(target),
                            [k \in {"error"} |-> e], 30)

\* ContentGenerationChain.generate_content
GenerateContent(llm, target) ==
    IF llm.raises
    THEN ContentFallback(target, <<"LLM error">>)
    ELSE LET parsed == ParseGenerationResult(llm.text) IN
         IF parsed.raised
         THEN ContentFallback(target, parsed.error)
         ELSE LET data     == parsed.value
                  accepted == SelectSeq(data.slides, LAMBDA e : e.kind = "valid")
                  made     == [i \in 1..Len(accepted) |->
                                 GeneratedSlide("llm", accepted[i].id, accepted[i].rich)]
                  filled   == IF Len(made) < MinSlides
                              THEN made \o GenerateFallbackSlides(Max(MinSlides - Len(made), 0))
                              ELSE made
                  slides   == IF Len(filled) > max_slides
                              THEN Take(filled, max_slides)
                              ELSE filled
                  meta     == data.presentation_metadata
              IN  \* metadata.get on a value that is no dict raises
                  IF meta.t # "dict"
                  THEN ContentFallback(target, <<"object has no attribute get">>)
                  ELSE ContentGenerationResult(slides, meta.v,
                                               ContentConfidenceScore(slides, meta.v))

(***************************************************************************)
(* DiagramGenerationChain (src/src/chains/diagram_generation_chain.py)     *)
(* A field of a proposed diagram or component is "missing" (key absent),   *)
(* "null" (present, not a string), "empty" ("") or "ok" (a non-empty       *)
(* string).  A proposal records its shape ("dict" or "other"), its fields, *)
(* its components value, whether its remaining fields (icon names,         *)
(* connections, clustering, styling, layout) are well-typed, and whether   *)
(* the renderer produces its image file.                                   *)
(***************************************************************************)
MinComponents == 2

MaxComponents == 20

Component(shape, name, ctype, provider) ==
    [shape |-> shape, name |-> name, component_type |-> ctype, icon_provider |-> provider]

GoodComponent == Component("dict", "ok", "ok", "ok")

Proposal(id, shape, dtype, title, comps, extras, renders) ==
    [id |-> id, shape |-> shape, diagram_type |-> dtype, title |-> title,
     components |-> comps, extras_ok |-> extras, renders |-> renders]

\* the validator asking for one component only
ValidateDiagramSpecOneComponent(diagram) ==
    /\ diagram.diagram_type # "missing"
    /\ diagram.title # "missing"
    /\ diagram.components.t # "missing"
    /\ diagram.components.t = "list"
    /\ Len(diagram.components.v) >= 1
    /\ \A i \in 1..Len(diagram.components.v) :
          LET c == diagram.components.v[i] IN
          /\ c.shape = "dict"
          /\ c.name # "missing"
          /\ c.component_type # "missing"
          /\ c.icon_provider # "missing"

\* DiagramGenerationChain._validate_diagram_spec (on an object)
ValidateDiagramSpec(diagram) ==
    /\ diagram.diagram_type # "missing"
    /\ diagram.title # "missing"
    /\ diagram.components.t # "missing"
    /\ diagram.components.t = "list"
    /\ Len(diagram.components.v) >= MinComponents
    /\ \A i \in 1..Len(diagram.components.v) :
          LET c == diagram.components.v[i] IN
          /\ c.shape = "dict"
          /\ c.name # "missing"
          /\ c.component_type # "missing"
          /\ c.icon_provider # "missing"

\* DiagramGenerationChain._parse_diagram_specifications
ParseDiagramSpecifications(text) ==
    IF NoJsonFound(text)
    THEN Raise(<<"No JSON found in diagram specification result">>)
    ELSE IF ~text.json.ok
    THEN Return([diagrams |-> <<>>,
                 analysis_metadata |-> JDict([k \in {"error"} |-> JStr("decode error")])])
    ELSE LET d        == text.json.obj
             diagrams == Get(d, "diagrams", JList(<<>>))
             meta     == Get(d, "analysis_metadata", JDict(EmptyDict))
         IN  IF diagrams.t # "list"
             THEN Raise(<<"diagrams is not a list of objects">>)
             \* an entry that is no object has no .get: validating or logging it raises
             ELSE IF \E i \in 1..Len(diagrams.v) : diagrams.v[i].shape # "dict"
             THEN Raise(<<"object has no attribute get">>)
             ELSE Return([diagrams |-> SelectSeq(diagrams.v, ValidateDiagramSpec),
                          analysis_metadata |-> meta])

\* DiagramComponent(...) accepts the component
ComponentAccepted(c) ==
    /\ c.shape = "dict"
    /\ c.name \in {"ok", "missing"}
    /\ c.component_type \in {"ok", "empty", "missing"}
    /\ c.icon_provider \in {"ok", "empty", "missing"}

\* DiagramSpec without the upper limit on its component list
CreateDiagramSpecUnbounded(diagram) ==
    /\ diagram.components.t \in {"list", "missing"}
    /\ LET comps == IF diagram.components.t = "list" THEN diagram.components.v ELSE <<>> IN
       /\ \A i \in 1..Len(comps) : ComponentAccepted(comps[i])
       /\ Len(comps) >= MinComponents
    /\ diagram.extras_ok
    /\ diagram.diagram_type \in {"ok", "empty", "missing"}
    /\ diagram.title \in {"ok", "missing"}

\* DiagramGenerationChain._create_diagram_spec returns a DiagramSpec (does not raise)
CreateDiagramSpecSucceeds(diagram) ==
    /\ diagram.components.t \in {"list", "missing"}
    /\ LET comps == IF diagram.components.t = "list" THEN diagram.components.v ELSE <<>> IN
       /\ \A i \in 1..Len(comps) : ComponentAccepted(comps[i])
       /\ Len(comps) >= MinComponents
       /\ Len(comps) <= MaxComponents
    /\ diagram.extras_ok
    /\ diagram.diagram_type \in {"ok", "empty", "missing"}
    /\ diagram.title \in {"ok", "missing"}

\* DiagramGenerator.generate_diagram returns a GeneratedDiagram (does not raise)
GenerateDiagramSucceeds(diagram) == diagram.renders

GeneratedDiagram(diagram) ==
    [id |-> diagram.id, n_components |-> Len(diagram.components.v)]

\* the proposals handed to DiagramGenerator.generate_diagram, in call order
RenderCalls(diagrams) == SelectSeq(diagrams, CreateDiagramSpecSucceeds)

\* the loop of generate_diagram_specs over the parsed proposals
GenerateAll(diagrams) ==
    LET ok == SelectSeq(RenderCalls(diagrams), GenerateDiagramSucceeds)
    IN  [i \in 1..Len(ok) |-> GeneratedDiagram(ok[i])]

\* DiagramGenerationChain._calculate_confidence_score, in hundredths;
\* technical_confidence is in tenths
RECURSIVE SumDiagramBonus(_)
SumDiagramBonus(diagrams) ==
    IF diagrams = <<>> THEN 0
    ELSE LET n == Head(diagrams).n_components IN
         (IF 5 <= n /\ n <= 15 THEN 5 ELSE IF 3 <= n /\ n <= 20 THEN 2 ELSE 0)
         + SumDiagramBonus(Tail(diagrams))

DiagramConfidenceScore(diagrams, technical_confidence) ==
    LET base  == IF diagrams # <<>> THEN 40 ELSE 0
        one   == IF Len(diagrams) >= 1 THEN 20 ELSE 0
        two   == IF Len(diagrams) >= 2 THEN 10 ELSE 0
    IN  Min(base + one + two + technical_confidence * 3 + SumDiagramBonus(diagrams), 100)

DiagramGenerationResult(diagrams, count, score, metadata) ==
    [diagrams |-> diagrams, success_count |-> count, confidence_score |-> score,
     metadata |-> metadata]

DiagramsDisabled ==
    DiagramGenerationResult(<<>>, 0, 0, [k \in {"disabled"} |-> TRUE])

DiagramsFailed(e) ==
    DiagramGenerationResult(<<>>, 0, 0,
                            [k \in {"error"} |-> <<"Diagram generation failed: ">> \o e])

\* the value orchestration_chain.py binds before the stage runs
DiagramsDefault == DiagramGenerationResult(<<>>, 0, 0, EmptyDict)

\* DiagramGenerationChain.generate_diagram_specs
GenerateDiagramSpecs(enabled, llm) ==
    IF ~enabled
    THEN DiagramsDisabled
    ELSE IF llm.raises
    THEN DiagramsFailed(<<"LLM error">>)
    ELSE LET parsed == ParseDiagramSpecifications(llm.text) IN
         IF parsed.raised
         THEN DiagramsFailed(parsed.error)
         ELSE LET generated == GenerateAll(parsed.value.diagrams)
                  meta      == parsed.value.analysis_metadata
              IN  IF meta.t # "dict"
                  THEN DiagramsFailed(<<"object has no attribute get">>)
                  ELSE LET tc == Get(meta.v, "technical_confidence", [t |-> "num", v |-> 5]) IN
                       IF tc.t # "num"
                       THEN DiagramsFailed(<<"unsupported operand type">>)
                       ELSE LET score == DiagramConfidenceScore(generated, tc.v) IN
                            \* DiagramGenerationResult validates confidence_score >= 0
                            IF score < 0
                            THEN DiagramsFailed(<<"validation error">>)
                            ELSE DiagramGenerationResult(
                                     generated, Len(generated), score,
                                     [k \in {"source", "technical_confidence"} |->
                                        IF k = "source" THEN "ai_generated" ELSE tc.v])

(***************************************************************************)
(* PresentationBuilder (src/src/tools/presentation_builder.py)             *)
(***************************************************************************)
SpecMinSlides == 3

SpecMaxSlides == 15

\* PresentationSpec(...) accepts the slide list
PresentationSpecAccepts(slides) ==
    Len(slides) >= SpecMinSlides /\ Len(slides) <= SpecMaxSlides

\* PresentationBuilder.build_presentation; io_ok: the template loads and the file saves
BuildPresentation(generation, io_ok) ==
    IF ~PresentationSpecAccepts(generation.slides)
    THEN Raise(<<"Presentation building failed: ", "validation error">>)
    ELSE IF ~io_ok
    THEN Raise(<<"Presentation building failed: ", "template or save error">>)
    ELSE Return([kind |-> "path", name |-> "proposal.pptx"])

\* PresentationBuilder.insert_diagrams_into_presentation; load_ok: the file loads,
\* inserted[i]: add_diagram_as_dedicated_slide succeeds for diagram i
InsertDiagramsIntoPresentation(diagrams, load_ok, inserted) ==
    LET details == [i \in 1..Len(diagrams) |->
                      [diagram |-> diagrams[i].id,
                       status  |-> IF inserted[i] THEN "success" ELSE "failed"]]
        good    == Cardinality({i \in 1..Len(diagrams) : inserted[i]})
    IN  IF diagrams = <<>> \/ ~load_ok
        THEN [total_diagrams |-> Len(diagrams), successful_insertions |-> 0,
              failed_insertions |-> 0, insertion_details |-> <<>>,
              error |-> diagrams # <<>>]
        ELSE [total_diagrams |-> Len(diagrams), successful_insertions |-> good,
              failed_insertions |-> Len(diagrams) - good,
              insertion_details |-> details, error |-> FALSE]

(***************************************************************************)
(* PowerPointOrchestrationChain (src/src/chains/orchestration_chain.py)    *)
(***************************************************************************)
\* One uploaded file: what DocumentProcessor.process_document does with it.
ReaderRaises == [raises |-> TRUE, records |-> <<>>]

ReaderReturns(file, n) ==
    [raises |-> FALSE, records |-> [k \in 1..n |-> [source_file |-> file, slide_number |-> k]]]

ProcessorMessage == "Processing failed"

\* the loop gives up at the first file the reader raises on
RECURSIVE ProcessDocumentsAborting(_)
ProcessDocumentsAborting(files) ==
    IF files = <<>> \/ Head(files).raises THEN <<>>
    ELSE Head(files).records \o ProcessDocumentsAborting(Tail(files))

\* PowerPointOrchestrationChain._process_documents
RECURSIVE ProcessDocuments(_)
ProcessDocuments(files) ==
    IF files = <<>> THEN <<>>
    ELSE (IF Head(files).raises THEN <<>> ELSE Head(files).records)
         \o ProcessDocuments(Tail(files))

\* PowerPointOrchestrationChain._update_status; progress in hundredths
UpdateStatus(status, progress, message) ==
    [status |-> status, progress |-> progress, message |-> message, error |-> None,
     current_step |-> message, total_steps |-> 6,
     completed_steps |-> (progress * 6) \div 100]

\* PowerPointOrchestrationChain.__init__
InitialStatus ==
    [status |-> "initialized", progress |-> 0, message |-> <<"Orchestration chain ready">>,
     error |-> None, current_step |-> <<>>, total_steps |-> 5, completed_steps |-> 0]

\* if progress_callback: progress_callback(self.current_status)
Delivered(stage) == IF has_callback THEN Append(observed, stage) ELSE observed

CallbackOutcomes == IF has_callback THEN {"returns", "raises"} ELSE {"returns"}

ObserverError == <<"observer error">>

\* exc holds the message of the exception in flight, as a sequence of text pieces
NoException == <<>>

(***************************************************************************)
(* The outcomes the collaborators can produce during one pipeline run.     *)
(***************************************************************************)
NoJsonText == Text(FALSE, FALSE, Invalid)

BadJsonText == Text(TRUE, TRUE, Invalid)

JsonText(d) == Text(TRUE, TRUE, Decoded(d))

LLMOutcomes(payloads) ==
    {LLMRaises, LLMReturns(NoJsonText), LLMReturns(BadJsonText)}
    \cup {LLMReturns(JsonText(d)) : d \in payloads}

\* the LLM call failed or its text is malformed
LLMFailed(llm) == llm.raises \/ ~Decodes(llm.text)

DocPayloads ==
    {[technologies |-> JList(<<"Python">>), approaches |-> JList(<<"Agile">>),
      case_studies |-> JList(<<>>), key_themes |-> JList(<<"Cloud">>)]}

ProjPayloads ==
    {[requirements |-> JList(<<"Scalability">>), technologies |-> JList(<<"Python">>),
      solution_approaches |-> JList(<<"Microservices">>),
      target_audience |-> JStr("CTO"), key_objectives |-> JList(<<>>)]}

\* a response with n valid slides
SlidesPayload(n) ==
    [slides |-> JList([i \in 1..n |-> SlideEntry("valid", i, TRUE)]),
     presentation_metadata |-> JDict([k \in {"presentation_flow"} |-> JStr("flow")])]

MaxRawSlides == 20

PipelineSlideCounts == {0, 5, MaxRawSlides}

ContentPayloads == {SlidesPayload(n) : n \in PipelineSlideCounts}

GoodComponents(n) == [t |-> "list", v |-> [i \in 1..n |-> GoodComponent]]

GoodProposal(id) == Proposal(id, "dict", "ok", "ok", GoodComponents(3), TRUE, TRUE)

UntitledProposal(id) == Proposal(id, "dict", "ok", "missing", GoodComponents(3), TRUE, TRUE)

MaxPipelineDiagrams == 2

PipelineProposalLists ==
    UNION {[1..n -> {"good", "untitled"}] : n \in 0..MaxPipelineDiagrams}

DiagramsPayload(kinds) ==
    [diagrams |-> JList([i \in 1..Len(kinds) |->
                           IF kinds[i] = "good" THEN GoodProposal(i)
                           ELSE UntitledProposal(i)]),
     analysis_metadata |-> JDict(EmptyDict)]

DiagramPayloads == {DiagramsPayload(k) : k \in PipelineProposalLists}

\* a proposal of a decoded response was dropped
ProposalDropped(llm) ==
    /\ ~LLMFailed(llm)
    /\ LET ds == llm.text.json.obj["diagrams"].v IN Len(GenerateAll(ds)) < Len(ds)

\* the i-th uploaded file holds i slides, or the reader raises on it
FileLists ==
    UNION {{[i \in 1..n |-> IF i \in bad THEN ReaderRaises ELSE ReaderReturns(i, i)] :
              bad \in SUBSET (1..n)}
           : n \in 0..MaxFiles}

TargetSlideCounts == {2, 8, 16}

Init ==
    /\ uploaded_files \in FileLists
    /\ target_slide_count \in TargetSlideCounts
    /\ has_callback \in BOOLEAN
    /\ enable_diagram_generation \in BOOLEAN
    /\ pc = "idle"
    /\ current_status = InitialStatus
    /\ observed = <<>>
    /\ extracted_content = <<>>
    /\ document_analysis = None
    /\ project_analysis = None
    /\ diagram_generation_result = None
    /\ generation_result = None
    /\ presentation_path = None
    /\ diagram_insertion_results = None
    /\ exc = NoException
    /\ result = None
    /\ failed = {}
    /\ call_state = "none"
    /\ call_args = None
    /\ call_result = None
    /\ requests = <<>>

(***************************************************************************)
(* generate_presentation, one action per stage.  An action sets the        *)
(* progress record to its stage, notifies the observer and runs the        *)
(* stage; pc names the stage that has run.  An exception that reaches the  *)
(* top-level handler leaves pc = "handler" with the exception in exc.      *)
(***************************************************************************)
inputs == <<uploaded_files, target_slide_count, has_callback, enable_diagram_generation>>

\* no top-level handler: the exception leaves generate_presentation
ToCaller(e) == pc' = "raised" /\ exc' = e

ToHandler(e) == pc' = "handler" /\ exc' = e

\* Step 1: _process_documents
ProcessingDocuments ==
    /\ pc = "idle"
    /\ current_status' = UpdateStatus("processing_documents", 10,
                                      <<"Processing uploaded documents...">>)
    /\ observed' = Delivered("processing_documents")
    /\ \E cb \in CallbackOutcomes :
          IF cb = "raises"
          THEN /\ ToHandler(ObserverError)
               /\ UNCHANGED <<extracted_content, failed>>
          ELSE /\ extracted_content' = ProcessDocuments(uploaded_files)
               /\ failed' = failed \cup
                      (IF \E i \in 1..Len(uploaded_files) : uploaded_files[i].raises
                       THEN {"document_processing"} ELSE {})
               /\ pc' = "processing_documents"
               /\ UNCHANGED exc
    /\ UNCHANGED <<inputs, document_analysis, project_analysis, diagram_generation_result,
                   generation_result, presentation_path, diagram_insertion_results,
                   result, uvars>>

\* analyze_documents
AnalyzingDocuments ==
    /\ pc = "processing_documents"
    /\ current_status' = UpdateStatus("analyzing_documents", 20,
                                      <<"Analyzing document content...">>)
    /\ observed' = Delivered("analyzing_documents")
    /\ \E cb \in CallbackOutcomes :
          IF cb = "raises"
          THEN /\ ToHandler(ObserverError)
               /\ UNCHANGED <<document_analysis, failed>>
          ELSE \E llm \in (IF extracted_content = <<>> THEN {LLMRaises}
                           ELSE LLMOutcomes(DocPayloads)) :
               /\ document_analysis' = AnalyzeDocuments(extracted_content, llm)
               /\ failed' = failed \cup
                      (IF extracted_content # <<>> /\ LLMFailed(llm)
                       THEN {"document_analysis"} ELSE {})
               /\ pc' = "analyzing_documents"
               /\ UNCHANGED exc
    /\ UNCHANGED <<inputs, extracted_content, project_analysis, diagram_generation_result,
                   generation_result, presentation_path, diagram_insertion_results,
                   result, uvars>>

\* Step 2: analyze_project
AnalyzingProject ==
    /\ pc = "analyzing_documents"
    /\ current_status' = UpdateStatus("analyzing_project", 30,
                                      <<"Analyzing project requirements...">>)
    /\ observed' = Delivered("analyzing_project")
    /\ \E cb \in CallbackOutcomes :
          IF cb = "raises"
          THEN /\ ToHandler(ObserverError)
               /\ UNCHANGED <<project_analysis, failed>>
          ELSE \E llm \in LLMOutcomes(ProjPayloads) :
               /\ project_analysis' = AnalyzeProject(llm)
               /\ failed' = failed \cup
                      (IF LLMFailed(llm) THEN {"project_analysis"} ELSE {})
               /\ pc' = "analyzing_project"
               /\ UNCHANGED exc
    /\ UNCHANGED <<inputs, extracted_content, document_analysis, diagram_generation_result,
                   generation_result, presentation_path, diagram_insertion_results,
                   result, uvars>>

\* the diagram stage without its try/except and without the chain's own:
\* a failed LLM call reaches the top-level handler
GeneratingDiagramsUnguarded ==
    /\ pc = "analyzing_project"
    /\ current_status' = UpdateStatus("generating_diagrams", 50,
                                      <<"Generating architecture diagrams...">>)
    /\ observed' = Delivered("generating_diagrams")
    /\ \E llm \in LLMOutcomes(DiagramPayloads) :
          IF enable_diagram_generation /\ LLMFailed(llm)
          THEN /\ ToHandler(<<"Diagram generation failed: ">>)
               /\ failed' = failed \cup {"diagram_generation"}
               /\ UNCHANGED diagram_generation_result
          ELSE /\ diagram_generation_result' =
                      GenerateDiagramSpecs(enable_diagram_generation, llm)
               /\ pc' = "generating_diagrams"
               /\ UNCHANGED <<exc, failed>>
    /\ UNCHANGED <<inputs, extracted_content, document_analysis, project_analysis,
                   generation_result, presentation_path, diagram_insertion_results,
                   result, uvars>>

\* Step 3: generate_diagram_specs, inside its own try/except
GeneratingDiagrams ==
    /\ pc = "analyzing_project"
    /\ current_status' = UpdateStatus("generating_diagrams", 50,
                                      <<"Generating architecture diagrams...">>)
    /\ observed' = Delivered("generating_diagrams")
    /\ \E cb \in CallbackOutcomes :
          IF cb = "raises"
          THEN /\ ToHandler(ObserverError)
               /\ UNCHANGED <<diagram_generation_result, failed>>
          ELSE /\ IF enable_diagram_generation
                  THEN \E llm \in LLMOutcomes(DiagramPayloads) :
                       /\ diagram_generation_result' =
                              GenerateDiagramSpecs(enable_diagram_generation, llm)
                       /\ failed' = failed
                              \cup (IF LLMFailed(llm) THEN {"diagram_generation"} ELSE {})
                              \cup (IF ProposalDropped(llm) THEN {"diagram_dropped"} ELSE {})
                  ELSE /\ diagram_generation_result' = DiagramsDefault
                       /\ UNCHANGED failed
               /\ pc' = "generating_diagrams"
               /\ UNCHANGED exc
    /\ UNCHANGED <<inputs, extracted_content, document_analysis, project_analysis,
                   generation_result, presentation_path, diagram_insertion_results,
                   result, uvars>>

\* Step 4: generate_content
GeneratingContent ==
    /\ pc = "generating_diagrams"
    /\ current_status' = UpdateStatus("generating_content", 70,
                                      <<"Generating slide content...">>)
    /\ observed' = Delivered("generating_content")
    /\ \E cb \in CallbackOutcomes :
          IF cb = "raises"
          THEN /\ ToHandler(ObserverError)
               /\ UNCHANGED <<generation_result, failed>>
          ELSE \E llm \in LLMOutcomes(ContentPayloads) :
               /\ generation_result' = GenerateContent(llm, target_slide_count)
               /\ failed' = failed \cup
                      (IF LLMFailed(llm) THEN {"content_generation"} ELSE {})
               /\ pc' = "generating_content"
               /\ UNCHANGED exc
    /\ UNCHANGED <<inputs, extracted_content, document_analysis, project_analysis,
                   diagram_generation_result, presentation_path,
                   diagram_insertion_results, result, uvars>>

\* Step 5: build_presentation
BuildingPresentation ==
    /\ pc = "generating_content"
    /\ current_status' = UpdateStatus("building_presentation", 85,
                                      <<"Creating PowerPoint presentation...">>)
    /\ observed' = Delivered("building_presentation")
    /\ \E cb \in CallbackOutcomes :
          IF cb = "raises"
          THEN /\ ToHandler(ObserverError)
               /\ UNCHANGED <<presentation_path, failed>>
          ELSE \E io_ok \in BOOLEAN :
               LET built == BuildPresentation(generation_result, io_ok) IN
               IF built.raised
               THEN /\ ToHandler(built.error)
                    /\ failed' = failed \cup {"presentation_building"}
                              \cup (IF PresentationSpecAccepts(generation_result.slides)
                                    THEN {"template_or_save"} ELSE {})
                    /\ UNCHANGED presentation_path
               ELSE /\ presentation_path' = built.value
                    /\ pc' = "building_presentation"
                    /\ UNCHANGED <<exc, failed>>
    /\ UNCHANGED <<inputs, extracted_content, document_analysis, project_analysis,
                   diagram_generation_result, generation_result,
                   diagram_insertion_results, result, uvars>>

\* the insertion stage entered whether or not there are diagrams
InsertingDiagramsAlways ==
    /\ pc = "building_presentation"
    /\ current_status' = UpdateStatus("inserting_diagrams", 95,
                                      <<"Inserting diagrams into presentation...">>)
    /\ observed' = Delivered("inserting_diagrams")
    /\ LET ds == diagram_generation_result.diagrams IN
       /\ diagram_insertion_results' =
              InsertDiagramsIntoPresentation(ds, TRUE, [i \in 1..Len(ds) |-> TRUE])
       /\ pc' = "inserting_diagrams"
    /\ UNCHANGED <<inputs, extracted_content, document_analysis, project_analysis,
                   diagram_generation_result, generation_result, presentation_path,
                   result, exc, failed, uvars>>

\* Step 6: insert_diagrams_into_presentation, only if there are diagrams,
\* inside its own try/except
InsertingDiagrams ==
    /\ pc = "building_presentation"
    /\ diagram_generation_result.diagrams # <<>>
    /\ current_status' = UpdateStatus("inserting_diagrams", 95,
                                      <<"Inserting diagrams into presentation...">>)
    /\ observed' = Delivered("inserting_diagrams")
    /\ \E cb \in CallbackOutcomes :
          IF cb = "raises"
          THEN /\ ToHandler(ObserverError)
               /\ UNCHANGED <<diagram_insertion_results, failed>>
          ELSE LET ds == diagram_generation_result.diagrams IN
               \E load_ok \in BOOLEAN, inserted \in [1..Len(ds) -> BOOLEAN] :
               /\ diagram_insertion_results' =
                      InsertDiagramsIntoPresentation(ds, load_ok, inserted)
               /\ failed' = failed \cup
                      (IF ~load_ok \/ \E i \in 1..Len(ds) : ~inserted[i]
                       THEN {"diagram_insertion"} ELSE {})
               /\ pc' = "inserting_diagrams"
               /\ UNCHANGED exc
    /\ UNCHANGED <<inputs, extracted_content, document_analysis, project_analysis,
                   diagram_generation_result, generation_result, presentation_path,
                   result, uvars>>

\* Final step: the progress record becomes completed, then the results are compiled
\* (_generate_summary reads the output file's size and may raise)
Completing ==
    /\ \/ pc = "inserting_diagrams"
       \/ pc = "building_presentation" /\ diagram_generation_result.diagrams = <<>>
    /\ current_status' = UpdateStatus("completed", 100,
                                      <<"Presentation created successfully: ", "proposal.pptx">>)
    /\ observed' = Delivered("completed")
    /\ \E cb \in CallbackOutcomes :
          IF cb = "raises"
          THEN /\ ToHandler(ObserverError)
               /\ UNCHANGED <<result, failed>>
          ELSE \E summary_ok \in BOOLEAN :
               IF ~summary_ok
               THEN /\ ToHandler(<<"cannot stat output file">>)
                    /\ failed' = failed \cup {"summary"}
                    /\ UNCHANGED result
               ELSE /\ result' =
                          [success |-> TRUE,
                           presentation_path |-> presentation_path,
                           project_analysis |-> project_analysis,
                           document_analysis |-> document_analysis,
                           diagram_generation_result |-> diagram_generation_result,
                           diagram_insertion_results |->
                               IF pc = "inserting_diagrams"
                               THEN diagram_insertion_results ELSE EmptyDict,
                           generation_result |-> generation_result,
                           extracted_content_count |-> Len(extracted_content),
                           final_slide_count |-> Len(generation_result.slides),
                           diagram_count |-> Len(diagram_generation_result.diagrams),
                           confidence_score |-> generation_result.confidence_score,
                           processing_status |-> current_status']
                    /\ pc' = "returned"
                    /\ UNCHANGED <<exc, failed>>
    /\ UNCHANGED <<inputs, extracted_content, document_analysis, project_analysis,
                   diagram_generation_result, generation_result, presentation_path,
                   diagram_insertion_results, uvars>>

\* except Exception as e: the top-level handler
HandlingError ==
    /\ pc = "handler"
    /\ LET error_msg == <<"Presentation generation failed: ">> \o exc IN
       /\ current_status' = UpdateStatus("error", 0, error_msg)
       /\ observed' = Delivered("error")
       /\ \E cb \in CallbackOutcomes :
             IF cb = "raises"
             THEN /\ pc' = "raised"
                  /\ exc' = ObserverError
                  /\ UNCHANGED result
             ELSE /\ result' = [success |-> FALSE, error |-> error_msg,
                                processing_status |-> current_status']
                  /\ pc' = "returned"
                  /\ UNCHANGED exc
    /\ UNCHANGED <<inputs, extracted_content, document_analysis, project_analysis,
                   diagram_generation_result, generation_result, presentation_path,
                   diagram_insertion_results, failed, uvars>>

Next ==
    \/ ProcessingDocuments
    \/ AnalyzingDocuments
    \/ AnalyzingProject
    \/ GeneratingDiagrams
    \/ GeneratingContent
    \/ BuildingPresentation
    \/ InsertingDiagrams
    \/ Completing
    \/ HandlingError

Spec == Init /\ [][Next]_vars

(***************************************************************************)
(* Properties of generate_presentation, checked under Spec.                *)
(***************************************************************************)
Stage == current_status.status

\* the stage that follows s in the documented sequence
NextStage(s) ==
    CASE s = "initialized"           -> "processing_documents"
      [] s = "processing_documents"  -> "analyzing_documents"
      [] s = "analyzing_documents"   -> "analyzing_project"
      [] s = "analyzing_project"     -> "generating_diagrams"
      [] s = "generating_diagrams"   -> "generating_content"
      [] s = "generating_content"    -> "building_presentation"
      [] s = "building_presentation" -> "inserting_diagrams"
      [] s = "inserting_diagrams"    -> "completed"
      [] OTHER                       -> "none"

Finished == pc \in {"returned", "raised"}

ObserverRaised == exc = ObserverError

LLMStages == {"document_analysis", "project_analysis", "diagram_generation",
              "content_generation"}

C2_AsStated ==
    (/\ Finished
     /\ failed \cap LLMStages # {}
     /\ failed \cap {"template_or_save", "summary"} = {}
     /\ ~ObserverRaised)
    => pc = "returned" /\ result.success

\* C5 as stated: the stage of the progress record only moves to the next stage of
\* the sequence, or to error.
C5_AsStated ==
    [][Stage' # Stage => (Stage' = NextStage(Stage) \/ Stage' = "error")]_vars

\* C5 (amended): the stage of the progress record moves to the next stage of the
\* sequence or to error, except that inserting_diagrams is entered exactly when at
\* least one diagram was generated: with no diagrams the record goes from
\* building_presentation directly to completed.
C5_StageOrder ==
    [][Stage' # Stage =>
          \/ Stage' = "error"
          \/ /\ Stage' = NextStage(Stage)
             /\ Stage' = "inserting_diagrams" => diagram_generation_result.diagrams # <<>>
          \/ /\ Stage = "building_presentation"
             /\ Stage' = "completed"
             /\ diagram_generation_result.diagrams = <<>>]_vars

\* the observer saw a successful run that never entered inserting_diagrams
C5_Witness ==
    /\ pc = "returned"
    /\ result.success
    /\ observed = <<"processing_documents", "analyzing_documents", "analyzing_project",
                    "generating_diagrams", "generating_content",
                    "building_presentation", "completed">>

DiagramFailures == {"diagram_generation", "diagram_dropped", "diagram_insertion"}

Succeeded == {i \in 1..Len(uploaded_files) : ~uploaded_files[i].raises}

C8_AsStated ==
    (pc = "returned" /\ "document_processing" \in failed) =>
        /\ ~result.success
        /\ ProcessorMessage \in Range(result.error)

(***************************************************************************)
(* ContentGenerationChain.generate_content on its own: one call, on any    *)
(* LLM outcome and any requested slide count up to MaxTarget.              *)
(***************************************************************************)
MaxTarget == 20

\* the pipeline variables while a single chain method is exercised
PipelineIdle ==
    /\ uploaded_files = <<>>
    /\ target_slide_count = 8
    /\ has_callback = FALSE
    /\ enable_diagram_generation = TRUE
    /\ pc = "unit"
    /\ current_status = InitialStatus
    /\ observed = <<>>
    /\ extracted_content = <<>>
    /\ document_analysis = None
    /\ project_analysis = None
    /\ diagram_generation_result = None
    /\ generation_result = None
    /\ presentation_path = None
    /\ diagram_insertion_results = None
    /\ exc = NoException
    /\ result = None
    /\ failed = {}
    /\ requests = <<>>

MetadataValues ==
    {JDict([k \in {"presentation_flow"} |-> JStr("flow")]),
     JDict([k \in {"key_messages"} |-> JList(<<>>)]),
     JStr("not an object")}

\* a raw response with nvalid valid slide entries, followed by nmal entries the
\* parser drops and nrej entries GeneratedSlide refuses
RawSlides(nvalid, nmal, nrej) ==
    [i \in 1..nvalid |-> SlideEntry("valid", i, i % 2 = 0)]
    \o [i \in 1..nmal |-> SlideEntry("malformed", nvalid + i, FALSE)]
    \o [i \in 1..nrej |-> SlideEntry("rejected", nvalid + nmal + i, FALSE)]

ContentResponses ==
    {[slides |-> JList(RawSlides(n, m, r)), presentation_metadata |-> meta] :
        n \in 0..MaxRawSlides, m \in 0..1, r \in 0..1, meta \in MetadataValues}
    \cup {[slides |-> [t |-> "num", v |-> 1], presentation_metadata |-> meta] :
            meta \in MetadataValues}
    \cup {[presentation_metadata |-> meta] : meta \in MetadataValues}

InitContent ==
    /\ PipelineIdle
    /\ call_state = "called"
    /\ call_args \in [llm : LLMOutcomes(ContentResponses), target : 0..MaxTarget]
    /\ call_result = None

GenerateContentCall ==
    /\ call_state = "called"
    /\ call_result' = GenerateContent(call_args.llm, call_args.target)
    /\ call_state' = "returned"
    /\ UNCHANGED <<pvars, call_args, requests>>

NextContent == GenerateContentCall

SpecContent == InitContent /\ [][NextContent]_vars

\* C3 as stated: every result of generate_content has between 3 and max_slides
\* slides, whatever the raw response, whether or not the LLM call failed, and
\* whatever slide count was requested.
C3_AsStated ==
    call_state = "returned" =>
        /\ Len(call_result.slides) >= 3
        /\ Len(call_result.slides) <= max_slides

(***************************************************************************)
(* The four result parsers on their own: one call of one parser on a text. *)
(***************************************************************************)
Parsers == {"document", "project", "content", "diagram"}

ParserResponses(parser) ==
    CASE parser = "document" ->
            DocPayloads \cup {[technologies |-> JStr("Python")],
                              [key_themes |-> JList(<<"Cloud">>),
                               business_benefits |-> JList(<<"Cost">>)],
                              [technologies |-> JStr(""), approaches |-> [t |-> "null"]],
                              [case_studies |-> [t |-> "num", v |-> 0],
                               key_themes |-> [t |-> "bool", v |-> FALSE]]}
      [] parser = "project"  ->
            ProjPayloads \cup {[requirements |-> JStr("Scalability")],
                               [target_audience |-> JList(<<"CTO">>)],
                               [requirements |-> JStr(""), technologies |-> [t |-> "null"]],
                               [solution_approaches |-> [t |-> "num", v |-> 0],
                                key_objectives |-> [t |-> "bool", v |-> TRUE]]}
      [] parser = "content"  -> ContentPayloads
      [] parser = "diagram"  -> DiagramPayloads

ParserTexts(parser) ==
    {Text(open, close, json) :
        open \in BOOLEAN, close \in BOOLEAN,
        json \in {Invalid} \cup {Decoded(d) : d \in ParserResponses(parser)}}

ParseWith(parser, text) ==
    CASE parser = "document" -> DocParseAnalysisResult(text)
      [] parser = "project"  -> ProjParseAnalysisResult(text)
      [] parser = "content"  -> ParseGenerationResult(text)
      [] parser = "diagram"  -> ParseDiagramSpecifications(text)

InitParse ==
    /\ PipelineIdle
    /\ call_state = "called"
    /\ call_args \in UNION {[parser : {q}, text : ParserTexts(q)] : q \in Parsers}
    /\ call_result = None

ParseCall ==
    /\ call_state = "called"
    /\ LET out == ParseWith(call_args.parser, call_args.text) IN
       /\ call_result' = out
       /\ call_state' = IF out.raised THEN "raised" ELSE "returned"
    /\ UNCHANGED <<pvars, call_args, requests>>

NextParse == ParseCall

SpecParse == InitParse /\ [][NextParse]_vars

\* the parser's minimal structure: every expected key, the lists empty, and an
\* error note (in the first list of the analysis parsers, in the metadata of the
\* other two)
IsMinimalFallback(parser, v) ==
    CASE parser = "document" ->
            /\ DocRequiredFields \subseteq DOMAIN v
            /\ \A k \in DocRequiredFields \ {"key_themes"} : v[k] = JList(<<>>)
            /\ v["key_themes"].t = "list" /\ Len(v["key_themes"].v) = 1
      [] parser = "project"  ->
            /\ ProjListFields \cup {"target_audience"} \subseteq DOMAIN v
            /\ \A k \in ProjListFields \ {"requirements"} : v[k] = JList(<<>>)
            /\ v["requirements"].t = "list" /\ Len(v["requirements"].v) = 1
      [] parser = "content"  ->
            /\ v.slides = <<>>
            /\ "error" \in DOMAIN v.presentation_metadata.v
      [] parser = "diagram"  ->
            /\ v.diagrams = <<>>
            /\ "error" \in DOMAIN v.analysis_metadata.v

\* C4 as stated: on a text with no '{' or no '}', each parser raises nothing and
\* returns its minimal fallback structure.
C4_AsStated ==
    (call_state # "called" /\ NoJsonFound(call_args.text)) =>
        /\ call_state = "returned"
        /\ IsMinimalFallback(call_args.parser, call_result.value)

(***************************************************************************)
(* DiagramGenerationChain.generate_diagram_specs on its own: one call on a *)
(* decoded response proposing up to MaxProposals diagrams.                 *)
(***************************************************************************)
MaxProposals == 3

ProposalKinds ==
    {"good", "fewest", "most", "too_many", "too_few", "title_missing", "title_empty",
     "type_missing", "name_missing", "name_empty", "component_type_missing",
     "icon_provider_missing", "component_type_empty", "not_object", "unrendered"}

\* n components, the first as given and the others good
ComponentsWith(first, n) ==
    [t |-> "list", v |-> [i \in 1..n |-> IF i = 1 THEN first ELSE GoodComponent]]

ProposalOfKind(kind, id) ==
    CASE kind = "good"          -> GoodProposal(id)
      [] kind = "fewest"        ->
            Proposal(id, "dict", "ok", "ok", GoodComponents(MinComponents), TRUE, TRUE)
      [] kind = "most"          ->
            Proposal(id, "dict", "ok", "ok", GoodComponents(MaxComponents), TRUE, TRUE)
      [] kind = "too_many"      ->
            Proposal(id, "dict", "ok", "ok", GoodComponents(MaxComponents + 1), TRUE, TRUE)
      [] kind = "too_few"       ->
            Proposal(id, "dict", "ok", "ok", GoodComponents(MinComponents - 1), TRUE, TRUE)
      [] kind = "title_missing" -> UntitledProposal(id)
      [] kind = "title_empty"   ->
            Proposal(id, "dict", "ok", "empty", GoodComponents(3), TRUE, TRUE)
      [] kind = "type_missing"  ->
            Proposal(id, "dict", "missing", "ok", GoodComponents(3), TRUE, TRUE)
      [] kind = "name_missing"  ->
            Proposal(id, "dict", "ok", "ok",
                     ComponentsWith(Component("dict", "missing", "ok", "ok"), 3), TRUE, TRUE)
      [] kind = "name_empty"    ->
            Proposal(id, "dict", "ok", "ok",
                     ComponentsWith(Component("dict", "empty", "ok", "ok"), 3), TRUE, TRUE)
      [] kind = "component_type_missing" ->
            Proposal(id, "dict", "ok", "ok",
                     ComponentsWith(Component("dict", "ok", "missing", "ok"), 3), TRUE, TRUE)
      [] kind = "icon_provider_missing"  ->
            Proposal(id, "dict", "ok", "ok",
                     ComponentsWith(Component("dict", "ok", "ok", "missing"), 3), TRUE, TRUE)
      [] kind = "component_type_empty"   ->
            Proposal(id, "dict", "ok", "ok",
                     ComponentsWith(Component("dict", "ok", "empty", "ok"), 3), TRUE, TRUE)
      [] kind = "not_object"    ->
            Proposal(id, "other", "missing", "missing", GoodComponents(0), TRUE, TRUE)
      [] kind = "unrendered"    ->
            Proposal(id, "dict", "ok", "ok", GoodComponents(3), TRUE, FALSE)

AnalysisMetadataValues ==
    {JDict([k \in {"architecture_pattern"} |-> JStr("microservices")]),
     JDict([k \in {"technical_confidence"} |-> [t |-> "num", v |-> 9]]),
     JDict([k \in {"technical_confidence"} |-> [t |-> "num", v |-> -1]])}

DiagramResponses ==
    {[diagrams |-> JList([i \in 1..Len(kinds) |-> ProposalOfKind(kinds[i], i)]),
      analysis_metadata |-> meta] :
        kinds \in UNION {[1..n -> ProposalKinds] : n \in 0..MaxProposals},
        meta \in AnalysisMetadataValues}

InitDiagram ==
    /\ PipelineIdle
    /\ call_state = "called"
    /\ call_args \in [response : DiagramResponses]
    /\ call_result = None

\* the proposals DiagramGenerator.generate_diagram is called with during
\* generate_diagram_specs on a response text
RenderedProposals(text) ==
    LET parsed == ParseDiagramSpecifications(text) IN
    IF parsed.raised THEN <<>> ELSE RenderCalls(parsed.value.diagrams)

GenerateDiagramSpecsCall ==
    /\ call_state = "called"
    /\ LET llm == LLMReturns(JsonText(call_args.response)) IN
       call_result' = [result       |-> GenerateDiagramSpecs(TRUE, llm),
                       render_calls |-> RenderedProposals(llm.text)]
    /\ call_state' = "returned"
    /\ UNCHANGED <<pvars, call_args, requests>>

NextDiagram == GenerateDiagramSpecsCall

SpecDiagram == InitDiagram /\ [][NextDiagram]_vars

Proposed == call_args.response.diagrams.v

\* a proposal with every required field: an object with a type tag, a non-empty
\* title and 2 to 20 components, each an object with a non-empty name, a component
\* type and an icon provider
WellFormed(p) ==
    /\ p.shape = "dict"
    /\ p.diagram_type = "ok"
    /\ p.title = "ok"
    /\ p.extras_ok
    /\ p.components.t = "list"
    /\ Len(p.components.v) \in MinComponents..MaxComponents
    /\ \A i \in 1..Len(p.components.v) :
          /\ p.components.v[i].shape = "dict"
          /\ p.components.v[i].name = "ok"
          /\ p.components.v[i].component_type \in {"ok", "empty"}
          /\ p.components.v[i].icon_provider \in {"ok", "empty"}

Renderable(p) == WellFormed(p) /\ p.renders

\* C9 as stated, for responses whose analysis metadata is well-formed: the call
\* returns exactly the proposals that are well-formed and render, in proposal
\* order, with success_count their number.
C9_AsStated ==
    (/\ call_state = "returned"
     /\ "technical_confidence" \notin DOMAIN call_args.response.analysis_metadata.v)
    => LET expected == SelectSeq(Proposed, Renderable) IN
       /\ call_result.result.diagrams =
             [i \in 1..Len(expected) |-> GeneratedDiagram(expected[i])]
       /\ call_result.result.success_count = Len(expected)

\* C10: generate_diagram is never called with a proposal that has fewer than 2 or
\* more than 20 components, a missing or empty title, no type tag, or a component
\* without a non-empty name, without a component type or without an icon provider.
C10_DefectiveNeverRendered ==
    call_state = "returned" =>
        \A i \in 1..Len(call_result.render_calls) :
            LET p == call_result.render_calls[i] IN
            /\ Len(p.components.v) >= 2
            /\ Len(p.components.v) <= 20
            /\ p.title \notin {"missing", "empty"}
            /\ p.diagram_type # "missing"
            /\ \A k \in 1..Len(p.components.v) :
                  /\ p.components.v[k].name \notin {"missing", "empty"}
                  /\ p.components.v[k].component_type # "missing"
                  /\ p.components.v[k].icon_provider # "missing"

\* a response with a 21-component proposal next to a 20-component one: only the
\* second was rendered
C10_Witness ==
    /\ call_state = "returned"
    /\ \E i \in 1..Len(Proposed) : Proposed[i].shape = "dict"
                                   /\ Len(Proposed[i].components.v) > 20
    /\ Len(call_result.render_calls) = 1
    /\ Len(call_result.render_calls[1].components.v) = 20

(***************************************************************************)
(* DiagramGenerationChain._validate_diagram_spec on its own: one call on a *)
(* proposed diagram object with up to MaxValidateComponents components.    *)
(***************************************************************************)
MaxValidateComponents == 3

FieldValues == {"missing", "null", "empty", "ok"}

ComponentValues ==
    {GoodComponent,
     Component("other", "missing", "missing", "missing"),
     Component("dict", "missing", "ok", "ok"),
     Component("dict", "empty", "ok", "ok"),
     Component("dict", "null", "ok", "ok"),
     Component("dict", "ok", "missing", "ok"),
     Component("dict", "ok", "ok", "missing"),
     Component("dict", "ok", "empty", "empty")}

ComponentsValues ==
    {[t |-> "missing", v |-> <<>>], [t |-> "other", v |-> <<>>]}
    \cup {[t |-> "list", v |-> cs] :
            cs \in UNION {[1..n -> ComponentValues] : n \in 0..MaxValidateComponents}}

InitValidate ==
    /\ PipelineIdle
    /\ call_state = "called"
    /\ call_args \in {[diagram |-> Proposal(1, "dict", dtype, title, comps, TRUE, TRUE)] :
                        dtype \in FieldValues, title \in FieldValues,
                        comps \in ComponentsValues}
    /\ call_result = None

ValidateCall ==
    /\ call_state = "called"
    /\ call_result' = [accepted |-> ValidateDiagramSpec(call_args.diagram)]
    /\ call_state' = "returned"
    /\ UNCHANGED <<pvars, call_args, requests>>

NextValidate == ValidateCall

SpecValidate == InitValidate /\ [][NextValidate]_vars

\* the entries of the components value of the validated diagram, if it is a list
ComponentEntries ==
    IF call_args.diagram.components.t = "list" THEN call_args.diagram.components.v ELSE <<>>

\* every entry is an object carrying name, component_type and icon_provider
EntriesCarryKeys ==
    \A i \in 1..Len(ComponentEntries) :
        /\ ComponentEntries[i].shape = "dict"
        /\ ComponentEntries[i].name # "missing"
        /\ ComponentEntries[i].component_type # "missing"
        /\ ComponentEntries[i].icon_provider # "missing"

\* C11 as stated: the diagram is accepted if and only if it has a type tag, a
\* non-empty title and a components list of at least 2 entries that each contain
\* name, component_type and icon_provider.
C11_AsStated ==
    call_state = "returned" =>
        (call_result.accepted <=>
            /\ call_args.diagram.diagram_type # "missing"
            /\ call_args.diagram.title = "ok"
            /\ call_args.diagram.components.t = "list"
            /\ Len(ComponentEntries) >= 2
            /\ EntriesCarryKeys)

\* C11 (amended): the diagram is accepted if and only if the keys diagram_type,
\* title and components are present (whatever the title's value, the empty string
\* included) and components is a list of at least 2 entries that each contain name,
\* component_type and icon_provider; every diagram with fewer than 2 components is
\* rejected, and every diagram with the three keys and 2 or more such entries is
\* accepted.
C11_KeysPresentAndTwoComponents ==
    call_state = "returned" =>
        /\ call_result.accepted <=>
              /\ call_args.diagram.diagram_type # "missing"
              /\ call_args.diagram.title # "missing"
              /\ call_args.diagram.components.t = "list"
              /\ Len(ComponentEntries) >= 2
              /\ EntriesCarryKeys
        /\ Len(ComponentEntries) < 2 => ~call_result.accepted
        /\ (call_result.accepted /\ call_args.diagram.title = "empty") =>
              ~CreateDiagramSpecSucceeds(call_args.diagram)

\* a diagram with an empty title and two well-formed components was accepted
C11_Witness ==
    /\ call_state = "returned"
    /\ call_args.diagram.title = "empty"
    /\ Len(ComponentEntries) = 2
    /\ call_result.accepted

(***************************************************************************)
(* DiagramGenerationChain._parse_diagram_specifications on a decodable     *)
(* response: one call on a text that holds a JSON object.                  *)
(***************************************************************************)
DecodableDiagramTexts ==
    {JsonText(r) : r \in DiagramResponses}
    \cup {JsonText([analysis_metadata |-> meta]) : meta \in AnalysisMetadataValues}
    \cup {JsonText([diagrams |-> JList(<<GoodProposal(1)>>)])}

InitParseDiagrams ==
    /\ PipelineIdle
    /\ call_state = "called"
    /\ call_args \in [text : DecodableDiagramTexts]
    /\ call_result = None

ParseDiagramsCall ==
    /\ call_state = "called"
    /\ LET out == ParseDiagramSpecifications(call_args.text) IN
       /\ call_result' = out
       /\ call_state' = IF out.raised THEN "raised" ELSE "returned"
    /\ UNCHANGED <<pvars, call_args, requests>>

NextParseDiagrams == ParseDiagramsCall

SpecParseDiagrams == InitParseDiagrams /\ [][NextParseDiagrams]_vars

\* the diagram entries of the decoded response
ResponseDiagrams ==
    IF "diagrams" \in DOMAIN call_args.text.json.obj
    THEN call_args.text.json.obj["diagrams"].v ELSE <<>>

\* the entry carries diagram_type, title and a components list whose entries each
\* have name, component_type and icon_provider
CarriesRequiredKeys(p) ==
    /\ p.shape = "dict"
    /\ p.diagram_type # "missing"
    /\ p.title # "missing"
    /\ p.components.t = "list"
    /\ \A i \in 1..Len(p.components.v) :
          /\ p.components.v[i].shape = "dict"
          /\ p.components.v[i].name # "missing"
          /\ p.components.v[i].component_type # "missing"
          /\ p.components.v[i].icon_provider # "missing"

\* C12 as stated, for responses whose diagram entries are all objects: the parser
\* returns a result with 'diagrams' and 'analysis_metadata', and 'diagrams' keeps
\* every entry that carries the required keys, an entry with a single component
\* included.
C12_AsStated ==
    (/\ call_state # "called"
     /\ \A i \in 1..Len(ResponseDiagrams) : ResponseDiagrams[i].shape = "dict")
    => /\ call_state = "returned"
       /\ {"diagrams", "analysis_metadata"} \subseteq DOMAIN call_result.value
       /\ call_result.value.diagrams = SelectSeq(ResponseDiagrams, CarriesRequiredKeys)

\* C13 as stated, for the result of generate_presentation: with diagram generation
\* disabled, the diagram_generation_result it carries has no diagrams,
\* success_count 0, metadata['disabled'] = true and no metadata['error'].
C13_AsStated ==
    (pc = "returned" /\ result.success /\ ~enable_diagram_generation) =>
        LET reported == result.diagram_generation_result IN
        /\ reported.diagrams = <<>>
        /\ reported.success_count = 0
        /\ "error" \notin DOMAIN reported.metadata
        /\ "disabled" \in DOMAIN reported.metadata
        /\ reported.metadata["disabled"] = TRUE

(***************************************************************************)
(* The scoring functions on their own: one call of one of                  *)
(* ContentGenerationChain._calculate_confidence_score,                     *)
(* DiagramGenerationChain._calculate_confidence_score and                  *)
(* ProjectAnalysisChain._calculate_match_score.  Content and diagram       *)
(* scores are in hundredths; the match score is the fraction num/den.      *)
(***************************************************************************)
MaxScored == 50

MaxMatches == 3

\* match["confidence"] in hundredths, as _find_matches sets it
MatchConfidence(match_type) == IF match_type = "exact" THEN 100 ELSE 70

RECURSIVE SumConfidence(_)
SumConfidence(matches) ==
    IF matches = <<>> THEN 0
    ELSE MatchConfidence(Head(matches)) + SumConfidence(Tail(matches))

\* ProjectAnalysisChain._calculate_match_score, as the fraction num/den of 1
CalculateMatchScore(tech_matches, approach_matches) ==
    IF tech_matches = <<>> /\ approach_matches = <<>>
    THEN [num |-> 0, den |-> 1]
    ELSE LET lt == Max(Len(tech_matches), 1)
             la == Max(Len(approach_matches), 1)
         IN  [num |-> SumConfidence(tech_matches) * la + SumConfidence(approach_matches) * lt,
              den |-> 100 * lt * la * 2]

\* technical_confidence values a response can carry, in tenths
TechnicalConfidenceValues == {-10, 0, 5, 8, 10, 20}

ScoredSlides(n, rich) == [i \in 1..n |-> GeneratedSlide("llm", i, rich)]

ScoredDiagrams(n, ncomp) == [i \in 1..n |-> [id |-> i, n_components |-> ncomp]]

MatchLists == UNION {[1..n -> {"exact", "partial"}] : n \in 0..MaxMatches}

ScoreCalls ==
    {[fn |-> "content", slides |-> ScoredSlides(n, rich), metadata |-> meta.v] :
        n \in 0..MaxScored, rich \in BOOLEAN,
        meta \in {m \in MetadataValues : m.t = "dict"}}
    \cup {[fn |-> "diagram", diagrams |-> ScoredDiagrams(n, ncomp),
           technical_confidence |-> tc] :
            n \in 0..MaxScored, ncomp \in {MinComponents, 5, MaxComponents},
            tc \in TechnicalConfidenceValues}
    \cup {[fn |-> "match", tech_matches |-> tm, approach_matches |-> am] :
            tm \in MatchLists, am \in MatchLists}

InitScore ==
    /\ PipelineIdle
    /\ call_state = "called"
    /\ call_args \in ScoreCalls
    /\ call_result = None

ScoreCall ==
    /\ call_state = "called"
    /\ call_result' =
          CASE call_args.fn = "content" ->
                  [num |-> ContentConfidenceScore(call_args.slides, call_args.metadata),
                   den |-> 100]
            [] call_args.fn = "diagram" ->
                  [num |-> DiagramConfidenceScore(call_args.diagrams,
                                                  call_args.technical_confidence),
                   den |-> 100]
            [] call_args.fn = "match"   ->
                  CalculateMatchScore(call_args.tech_matches, call_args.approach_matches)
    /\ call_state' = "returned"
    /\ UNCHANGED <<pvars, call_args, requests>>

NextScore == ScoreCall

SpecScore == InitScore /\ [][NextScore]_vars

\* C14 as stated: the score every scoring function returns lies in [0, 1], for 0 to
\* 50 slides or diagrams and any metadata values.
C14_AsStated ==
    call_state = "returned" =>
        /\ call_result.num >= 0
        /\ call_result.num <= call_result.den

(***************************************************************************)
(* DiagramGenerator (src/src/tools/diagram_generator.py): icon resolution. *)
(* An icon class is named by its class name in the diagrams library.       *)
(***************************************************************************)
\* DiagramGenerator._initialize_icon_mappings
IconMappings ==
    [provider \in {"aws", "azure", "gcp", "kubernetes", "onprem"} |->
        CASE provider = "aws" ->
                [api |-> "APIGateway", service |-> "Lambda", microservice |-> "Lambda",
                 database |-> "RDS", nosql |-> "Dynamodb", queue |-> "SQS",
                 notification |-> "SNS", storage |-> "S3", compute |-> "EC2",
                 container |-> "ECS", loadbalancer |-> "ElasticLoadBalancing",
                 analytics |-> "EMR", etl |-> "Glue", streaming |-> "Kinesis",
                 warehouse |-> "Redshift"]
          [] provider = "azure" ->
                [api |-> "ApplicationGateway", service |-> "FunctionApps",
                 microservice |-> "FunctionApps", database |-> "SQLDatabases",
                 nosql |-> "CosmosDb", queue |-> "ServiceBus",
                 notification |-> "ServiceBus", storage |-> "BlobStorage",
                 compute |-> "ContainerInstances", container |-> "ContainerInstances",
                 loadbalancer |-> "LoadBalancers", analytics |-> "SynapseAnalytics",
                 etl |-> "DataFactories", streaming |-> "EventHubs"]
          [] provider = "gcp" ->
                [api |-> "LoadBalancing", service |-> "Functions",
                 microservice |-> "Functions", database |-> "SQL", nosql |-> "Firestore",
                 queue |-> "Pubsub", notification |-> "Pubsub", storage |-> "Storage",
                 compute |-> "ComputeEngine", container |-> "KubernetesEngine",
                 loadbalancer |-> "LoadBalancing", analytics |-> "Bigquery",
                 etl |-> "Dataflow", streaming |-> "Pubsub"]
          [] provider = "kubernetes" ->
                [service |-> "Pod", microservice |-> "Pod", network |-> "Service"]
          [] provider = "onprem" ->
                [database |-> "PostgreSQL", mysql |-> "MySQL", cache |-> "Redis",
                 queue |-> "RabbitMQ"]]

\* the class _get_icon_class returns when nothing matches
GlobalFallbackIcon == "Lambda"

\* str.lower() on the icon names the model supplies
Lower(name) ==
    CASE name = "API"      -> "api"
      [] name = "Lambda"   -> "lambda"
      [] name = "Database" -> "database"
      [] name = "Cache"    -> "cache"
      [] OTHER             -> name

\* resolution that skips the lookup by component type
GetIconClassByNameOnly(provider, component_type, icon_name) ==
    LET known          == provider \in DOMAIN IconMappings
        provider_icons == IF known THEN IconMappings[provider] ELSE EmptyDict
    IN  IF Lower(icon_name) \in DOMAIN provider_icons
        THEN provider_icons[Lower(icon_name)]
        ELSE IF known
        THEN Get(provider_icons, "service", GlobalFallbackIcon)
        ELSE GlobalFallbackIcon

\* DiagramGenerator._get_icon_class
GetIconClass(provider, component_type, icon_name) ==
    LET known          == provider \in DOMAIN IconMappings
        provider_icons == IF known THEN IconMappings[provider] ELSE EmptyDict
    IN  IF component_type \in DOMAIN provider_icons
        THEN provider_icons[component_type]
        ELSE IF Lower(icon_name) \in DOMAIN provider_icons
        THEN provider_icons[Lower(icon_name)]
        ELSE IF known
        THEN Get(provider_icons, "service", GlobalFallbackIcon)
        ELSE GlobalFallbackIcon

Providers == DOMAIN IconMappings \cup {"unknown", "AWS", ""}

ComponentTypes ==
    UNION {DOMAIN IconMappings[p] : p \in DOMAIN IconMappings} \cup {"unknown", ""}

IconNames == {"API", "Lambda", "Database", "Cache", "queue", "unknown", ""}

InitIcon ==
    /\ PipelineIdle
    /\ call_state = "called"
    /\ call_args \in [provider : Providers, component_type : ComponentTypes,
                      icon_name : IconNames]
    /\ call_result = None

GetIconClassCall ==
    /\ call_state = "called"
    /\ call_result' = [icon |-> GetIconClass(call_args.provider, call_args.component_type,
                                             call_args.icon_name)]
    /\ call_state' = "returned"
    /\ UNCHANGED <<pvars, call_args, requests>>

NextIcon == GetIconClassCall

SpecIcon == InitIcon /\ [][NextIcon]_vars

KnownProvider == call_args.provider \in DOMAIN IconMappings

KnownType ==
    KnownProvider /\ call_args.component_type \in DOMAIN IconMappings[call_args.provider]

MaxConnections == 2

ComponentNames == {"Source", "Target", "NonExistent"}

DiagramConnection(source, target, connection_type) ==
    [source |-> source, target |-> target, connection_type |-> connection_type]

\* source - target or source >> target
RenderedEdge(connection) ==
    [from |-> connection.source, to |-> connection.target,
     two_way |-> connection.connection_type = "bidirectional"]

\* the loop gives up at the first connection that names an absent component
RECURSIVE CreateConnectionsAborting(_, _)
CreateConnectionsAborting(components, connections) ==
    IF connections = <<>> THEN <<>>
    ELSE LET connection == Head(connections) IN
         IF connection.source \in components /\ connection.target \in components
         THEN <<RenderedEdge(connection)>>
              \o CreateConnectionsAborting(components, Tail(connections))
         ELSE <<>>

\* DiagramGenerator._create_connections: the edges rendered, in order
RECURSIVE CreateConnections(_, _)
CreateConnections(components, connections) ==
    IF connections = <<>> THEN <<>>
    ELSE LET connection == Head(connections) IN
         (IF connection.source \in components /\ connection.target \in components
          THEN <<RenderedEdge(connection)>>
          ELSE <<>>)
         \o CreateConnections(components, Tail(connections))

ConnectionValues ==
    {DiagramConnection(s, t, k) :
        s \in ComponentNames, t \in ComponentNames, k \in {"arrow", "edge", "bidirectional"}}

InitConnections ==
    /\ PipelineIdle
    /\ call_state = "called"
    /\ call_args \in [components  : SUBSET {"Source", "Target"},
                      connections : UNION {[1..n -> ConnectionValues] : n \in 0..MaxConnections}]
    /\ call_result = None

CreateConnectionsCall ==
    /\ call_state = "called"
    /\ call_result' = [edges |-> CreateConnections(call_args.components,
                                                   call_args.connections)]
    /\ call_state' = "returned"
    /\ UNCHANGED <<pvars, call_args, requests>>

NextConnections == CreateConnectionsCall

SpecConnections == InitConnections /\ [][NextConnections]_vars

\* the positions of the connections whose two ends are resolved components
Connectable ==
    {i \in 1..Len(call_args.connections) :
        /\ call_args.connections[i].source \in call_args.components
        /\ call_args.connections[i].target \in call_args.components}

Absent == [t |-> "absent"]

\* a decoded response; a field given as Absent is left out of the object
ProjectResponse(req, tech, audience, drivers) ==
    LET full == [requirements |-> req, technologies |-> tech,
                 solution_approaches |-> JList(<<"Microservices">>),
                 target_audience |-> audience, business_drivers |-> drivers]
    IN  [k \in {f \in DOMAIN full : full[f] # Absent} |-> full[k]]

ProjectResponses ==
    {ProjectResponse(req, tech, audience, drivers) :
        req      \in {Absent, JList(<<"Scalability">>), JStr("Scalability"), JStr("")},
        tech     \in {Absent, JList(<<"Python">>), [t |-> "num", v |-> 0]},
        audience \in {Absent, JStr("CTO"), JList(<<"CTO">>)},
        drivers  \in {Absent, JList(<<"Cost">>), JStr("Cost")}}

InitProject ==
    /\ PipelineIdle
    /\ call_state = "called"
    /\ call_args \in [llm : LLMOutcomes(ProjectResponses)]
    /\ call_result = None

AnalyzeProjectCall ==
    /\ call_state = "called"
    /\ call_result' = AnalyzeProject(call_args.llm)
    /\ call_state' = "returned"
    /\ UNCHANGED <<pvars, call_args, requests>>

NextProject == AnalyzeProjectCall

SpecProject == InitProject /\ [][NextProject]_vars

MaxDocuments == 3

DocumentLists ==
    {[k \in 1..n |-> [source_file |-> "deck.pptx", slide_number |-> k]] :
        n \in 0..MaxDocuments}

\* a decoded response; a field given as Absent is left out of the object
DocResponse(tech, appr, themes, benefits) ==
    LET full == [technologies |-> tech, approaches |-> appr,
                 case_studies |-> JList(<<"Retail migration">>),
                 key_themes |-> themes, business_benefits |-> benefits]
    IN  [k \in {f \in DOMAIN full : full[f] # Absent} |-> full[k]]

DocResponses ==
    {DocResponse(tech, appr, themes, benefits) :
        tech     \in {Absent, JList(<<"Python">>), JStr("Python")},
        appr     \in {Absent, JList(<<"Agile">>)},
        themes   \in {Absent, JList(<<"Cloud">>), [t |-> "num", v |-> 1]},
        benefits \in {Absent, JList(<<"Cost">>)}}

\* the chain is invoked whatever the document list holds
DocLLMCallsEager(documents) == 1

\* invocations of self.chain by analyze_documents: none on the early return,
\* one ainvoke otherwise
DocLLMCalls(documents) == IF documents = <<>> THEN 0 ELSE 1

InitDocuments ==
    /\ PipelineIdle
    /\ call_state = "called"
    /\ call_args \in [documents : DocumentLists, llm : LLMOutcomes(DocResponses)]
    /\ call_result = None

AnalyzeDocumentsCall ==
    /\ call_state = "called"
    /\ call_result' = [result    |-> AnalyzeDocuments(call_args.documents, call_args.llm),
                       llm_calls |-> DocLLMCalls(call_args.documents)]
    /\ call_state' = "returned"
    /\ UNCHANGED <<pvars, call_args, requests>>

NextDocuments == AnalyzeDocumentsCall

SpecDocuments == InitDocuments /\ [][NextDocuments]_vars

\* C19: analyze_documents on an empty document list returns source_documents = 0
\* with every list field empty and makes no LLM call; on a non-empty list it makes
\* exactly one LLM call.
C19_EmptyListSkipsLLM ==
    call_state = "returned" =>
        /\ call_args.documents = <<>> =>
              /\ call_result.result.source_documents = 0
              /\ \A f \in DocRequiredFields : call_result.result[f] = <<>>
              /\ call_result.llm_calls = 0
        /\ call_args.documents # <<>> => call_result.llm_calls = 1

\* an empty list came back as the empty result although the LLM would have answered
C19_Witness ==
    /\ call_state = "returned"
    /\ call_args.documents = <<>>
    /\ ~LLMFailed(call_args.llm)
    /\ call_result.result.source_documents = 0
    /\ call_result.llm_calls = 0


(***************************************************************************)
(* PowerPointOrchestrationChain.validate_inputs on its own: one call, on   *)
(* any project, upload list, API key and template state.                   *)
(***************************************************************************)
MaxDescription == 22      \* characters of the longest description tried
MaxPadding == 2           \* whitespace characters at either end of a string
MaxClientName == 3
MaxUploaded == 6          \* one more than settings.max_files

DescriptionMinLength == 10   \* ProjectDescription.description, min_length
ClientNameMinLength == 1     \* ProjectDescription.client_name, min_length
MinDescription == 20
MinClientName == 2
max_files == 5               \* settings.max_files, default

\* a string by its length and the whitespace at its ends; leading = length is a
\* string of whitespace only
Strings(lo, hi) ==
    {[length |-> n, leading |-> l, trailing |-> t] :
        n \in lo..hi, l \in 0..MaxPadding, t \in 0..MaxPadding}
    \cup {[length |-> n, leading |-> n, trailing |-> 0] : n \in lo..hi}

\* the whitespace at the ends leaves a character between them, or is the whole string
ProperString(s) == s.leading = s.length \/ s.leading + s.trailing < s.length

\* len(s.strip())
StripLen(s) ==
    IF s.leading = s.length THEN 0 ELSE s.length - s.leading - s.trailing

\* the description is measured as given
DescriptionTooShortUnstripped(description) ==
    description.length = 0 \/ description.length < MinDescription

\* not project.description or len(project.description.strip()) < 20
DescriptionTooShort(description) ==
    description.length = 0 \/ StripLen(description) < MinDescription

DescriptionError == "Project description too short (minimum 20 characters)"

\* PowerPointOrchestrationChain.validate_inputs
ValidateInputs(project, files, api_key_ok, template_exists) ==
    LET short_description == DescriptionTooShort(project.description)
        short_client == \/ project.client_name.length = 0
                        \/ StripLen(project.client_name) < MinClientName
        too_many    == files # <<>> /\ Len(files) > max_files
        unsupported == SelectSeq(files, LAMBDA f : f \notin {"pptx", "pdf"})
    IN  [valid  |-> ~(short_description \/ short_client \/ too_many
                      \/ unsupported # <<>> \/ ~api_key_ok),
         errors |->
            (IF short_description THEN <<DescriptionError>> ELSE <<>>)
            \o (IF short_client
                THEN <<"Client name too short (minimum 2 characters)">> ELSE <<>>)
            \o (IF too_many THEN <<"Too many files">> ELSE <<>>)
            \o [i \in 1..Len(unsupported) |-> "Unsupported file type"]
            \o (IF api_key_ok THEN <<>>
                ELSE <<"OpenAI API key not properly configured">>),
         warnings |->
            (IF files = <<>>
             THEN <<"No reference documents provided - using default content patterns">>
             ELSE <<>>)
            \o (IF template_exists THEN <<>> ELSE <<"Default template not found">>)]

Descriptions == {s \in Strings(DescriptionMinLength, MaxDescription) : ProperString(s)}

ClientNames == {s \in Strings(ClientNameMinLength, MaxClientName) : ProperString(s)}

\* n uploads, the first k of a type the application does not read
UploadedFileLists ==
    {[i \in 1..n |-> IF i <= k THEN "docx" ELSE IF i = n THEN "pdf" ELSE "pptx"] :
        n \in {0, 1, max_files, MaxUploaded}, k \in 0..1}

InitValidateInputs ==
    /\ PipelineIdle
    /\ call_state = "called"
    /\ call_args \in [project : [description : Descriptions, client_name : ClientNames],
                      uploaded_files : UploadedFileLists,
                      api_key_ok : BOOLEAN, template_exists : BOOLEAN]
    /\ call_result = None

ValidateInputsCall ==
    /\ call_state = "called"
    /\ call_result' = ValidateInputs(call_args.project, call_args.uploaded_files,
                                     call_args.api_key_ok, call_args.template_exists)
    /\ call_state' = "returned"
    /\ UNCHANGED <<pvars, call_args, requests>>

NextValidateInputs == ValidateInputsCall

SpecValidateInputs == InitValidateInputs /\ [][NextValidateInputs]_vars

ReportsDescriptionError == DescriptionError \in Range(call_result.errors)

\* C20 as stated: the description error is reported exactly when the description has
\* fewer than 20 characters, whatever they are, and valid is true exactly when
\* errors is empty.
C20_AsStated ==
    call_state = "returned" =>
        /\ ReportsDescriptionError <=>
              call_args.project.description.length < MinDescription
        /\ call_result.valid <=> call_result.errors = <<>>

\* C20: the description error is reported exactly when the description without its
\* leading and trailing whitespace has fewer than 20 characters: always at 19
\* characters, at 20 characters exactly when the description begins or ends with
\* whitespace; valid is true exactly when errors is empty.
C20_StrippedLengthDecides ==
    call_state = "returned" =>
        LET d == call_args.project.description IN
        /\ ReportsDescriptionError <=> StripLen(d) < MinDescription
        /\ d.length = MinDescription - 1 => ReportsDescriptionError
        /\ d.length = MinDescription =>
              (ReportsDescriptionError <=> (d.leading > 0 \/ d.trailing > 0))
        /\ call_result.valid <=> call_result.errors = <<>>

\* a description of 20 characters ending in a space was reported as too short
C20_Witness ==
    /\ call_state = "returned"
    /\ call_args.project.description =
          [length |-> MinDescription, leading |-> 0, trailing |-> 1]
    /\ ReportsDescriptionError
    /\ ~call_result.valid


\* C21 as stated: an exception raised by the progress observer during any of its
\* notifications, the notification of the error stage included, does not leave
\* generate_presentation: a call that has ended has returned a result.
C21_AsStated ==
    (has_callback /\ Finished) => (pc = "returned" /\ "success" \in DOMAIN result)


\* the observer has been notified of the completed stage
NotifiedCompleted ==
    /\ Stage = "completed"
    /\ has_callback
    /\ observed # <<>>
    /\ observed[Len(observed)] = "completed"

\* C22 as stated: when generate_presentation returns, the stage is 'completed'
\* exactly when the result has success=True and a presentation_path, and 'error'
\* exactly when it has success=False and no presentation_path; and once the stage is
\* 'completed' and the observer has been notified of it, the stage never becomes
\* 'error' within the same call.
C22_AsStated ==
    /\ [](pc = "returned" =>
            /\ Stage = "completed" <=>
                  (result.success /\ "presentation_path" \in DOMAIN result)
            /\ Stage = "error" <=>
                  (~result.success /\ "presentation_path" \notin DOMAIN result))
    /\ [][NotifiedCompleted => Stage' # "error"]_vars


\* C23 as stated: when the document-analysis response decodes to a JSON object,
\* analyze_documents returns the response's technologies, approaches, case studies
\* and key themes with source_documents equal to the number of input records, also
\* when the response holds optional keys, whose lists are then in the result too.
C23_AsStated ==
    (call_state = "returned" /\ call_args.documents # <<>> /\ ~LLMFailed(call_args.llm)) =>
        LET response == call_args.llm.text.json.obj
            returned == call_result.result
        IN  /\ returned.source_documents = Len(call_args.documents)
            /\ \A f \in DocRequiredFields \cap DOMAIN response :
                  response[f].t = "list" => returned[f] = response[f].v
            /\ \A f \in DocOptionalFields \cap DOMAIN response :
                  f \in DOMAIN returned /\ returned[f] = response[f].v


\* the keys a parser expects to hold lists
ExpectedListKeys(parser) ==
    IF parser = "document" THEN DocRequiredFields ELSE ProjListFields

AnalysisParserDecoded ==
    /\ call_state = "returned"
    /\ call_args.parser \in {"document", "project"}
    /\ Decodes(call_args.text)

\* C24 as stated: after a successful decode the parser's output holds a list for
\* every expected list-typed key: the empty list for a missing key, [str(v)] for any
\* value v that is not a list, and a list value unchanged.
C24_AsStated ==
    AnalysisParserDecoded =>
        LET d == call_args.text.json.obj IN
        \A k \in ExpectedListKeys(call_args.parser) :
            call_result.value[k] =
                IF k \notin DOMAIN d THEN JList(<<>>)
                ELSE IF d[k].t = "list" THEN d[k]
                ELSE JList(<<PyStr(d[k])>>)

\* C24: after a successful decode the parser's output holds a list for every
\* expected list-typed key: the empty list for a missing key and a list value
\* unchanged; a value v that is not a list becomes [str(v)], except that the project
\* parser turns a falsy one (null, false, 0, the empty string) into the empty list.
C24_ListForEveryExpectedKey ==
    AnalysisParserDecoded =>
        LET d == call_args.text.json.obj IN
        \A k \in ExpectedListKeys(call_args.parser) :
            call_result.value[k] =
                IF k \notin DOMAIN d THEN JList(<<>>)
                ELSE IF d[k].t = "list" THEN d[k]
                ELSE IF call_args.parser = "project" /\ ~Truthy(d[k]) THEN JList(<<>>)
                ELSE JList(<<PyStr(d[k])>>)

\* the project parser got an empty string where a list was expected and put the
\* empty list in its place
C24_Witness ==
    /\ AnalysisParserDecoded
    /\ call_args.parser = "project"
    /\ "requirements" \in DOMAIN call_args.text.json.obj
    /\ call_args.text.json.obj["requirements"] = JStr("")
    /\ call_result.value["requirements"] = JList(<<>>)


(***************************************************************************)
(* DiagramGenerator.generate_diagram and the loop of generate_diagram_specs *)
(* that calls it, on a batch of valid specifications: what the renderer    *)
(* does with each one is the environment's choice.                         *)
(***************************************************************************)
MaxBatch == 3

\* _generate_diagram_sync: writes the image, returns without writing it, or raises
RenderOutcomes == {"file", "no_file", "raises"}

RenderBatches == UNION {[1..n -> RenderOutcomes] : n \in 1..MaxBatch}

DiagramError(cause) == [type |-> "ValueError", cause |-> cause]

\* generate_diagram without the check that the file was created
GenerateDiagramUnverified(available, i, outcome) ==
    IF ~available THEN Raise(DiagramError("ValueError"))
    ELSE IF outcome = "raises" THEN Raise(DiagramError("Exception"))
    ELSE Return([spec |-> i, image_existed |-> outcome = "file"])

\* DiagramGenerator.generate_diagram on the i-th specification
GenerateDiagram(available, i, outcome) ==
    IF ~available THEN Raise(DiagramError("ValueError"))
    ELSE IF outcome = "raises" THEN Raise(DiagramError("Exception"))
    ELSE IF outcome = "no_file" THEN Raise(DiagramError("FileNotFoundError"))
    ELSE Return([spec |-> i, image_existed |-> outcome = "file"])

\* for diagram_spec_data in spec_data.get("diagrams", []): try ... except: continue
RECURSIVE GenerateLoop(_, _, _, _)
GenerateLoop(available, outcomes, i, acc) ==
    IF i > Len(outcomes) THEN acc
    ELSE LET r == GenerateDiagram(available, i, outcomes[i]) IN
         GenerateLoop(available, outcomes, i + 1,
                      [generated_diagrams |->
                           IF r.raised THEN acc.generated_diagrams
                           ELSE Append(acc.generated_diagrams, r.value),
                       calls |-> Append(acc.calls, r)])

InitRender ==
    /\ PipelineIdle
    /\ call_state = "called"
    /\ call_args \in [available : BOOLEAN, outcomes : RenderBatches]
    /\ call_result = None

RenderBatchCall ==
    /\ call_state = "called"
    /\ call_result' = GenerateLoop(call_args.available, call_args.outcomes, 1,
                                   [generated_diagrams |-> <<>>, calls |-> <<>>])
    /\ call_state' = "returned"
    /\ UNCHANGED <<pvars, call_args, requests>>

SpecRender == InitRender /\ [][RenderBatchCall]_vars

GeneratedSpecs == {call_result.generated_diagrams[j].spec :
                      j \in 1..Len(call_result.generated_diagrams)}

MaxInserted == 3

\* add_diagram_as_dedicated_slide returns True, returns False, or raises
InsertionOutcomes == {"inserted", "refused", "raises"}

InsertionBatches == UNION {[1..n -> InsertionOutcomes] : n \in 0..MaxInserted}

EmptyInsertionResults(n) ==
    [total_diagrams |-> n, successful_insertions |-> 0, failed_insertions |-> 0,
     insertion_details |-> <<>>, error |-> "none"]

\* the loop leaving at the first insertion that raises
RECURSIVE InsertLoopAborting(_, _, _)
InsertLoopAborting(outcomes, i, results) ==
    IF i > Len(outcomes) THEN results
    ELSE IF outcomes[i] = "raises" THEN [results EXCEPT !.error = "insertion failed"]
    ELSE InsertLoopAborting(outcomes, i + 1,
            IF outcomes[i] = "inserted"
            THEN [results EXCEPT
                    !.successful_insertions = @ + 1,
                    !.insertion_details = Append(@, [diagram |-> i, status |-> "success"])]
            ELSE [results EXCEPT
                    !.failed_insertions = @ + 1,
                    !.insertion_details = Append(@, [diagram |-> i, status |-> "failed"])])

\* for diagram in diagrams: try ... except Exception
RECURSIVE InsertLoop(_, _, _)
InsertLoop(outcomes, i, results) ==
    IF i > Len(outcomes) THEN results
    ELSE InsertLoop(outcomes, i + 1,
            IF outcomes[i] = "inserted"
            THEN [results EXCEPT
                    !.successful_insertions = @ + 1,
                    !.insertion_details = Append(@, [diagram |-> i, status |-> "success"])]
            ELSE [results EXCEPT
                    !.failed_insertions = @ + 1,
                    !.insertion_details = Append(@, [diagram |-> i, status |-> "failed"])])

\* PresentationBuilder.insert_diagrams_into_presentation on diagrams 1..Len(outcomes)
InsertDiagrams(outcomes, load_ok, save_ok) ==
    LET results == EmptyInsertionResults(Len(outcomes)) IN
    IF outcomes = <<>> THEN results
    ELSE IF ~load_ok THEN [results EXCEPT !.error = "load failed"]
    ELSE LET after == InsertLoop(outcomes, 1, results) IN
         IF after.error = "none" /\ ~save_ok
         THEN [after EXCEPT !.error = "save failed"]
         ELSE after

InitInsert ==
    /\ PipelineIdle
    /\ call_state = "called"
    /\ call_args \in [outcomes : InsertionBatches, load_ok : BOOLEAN, save_ok : BOOLEAN]
    /\ call_result = None

InsertDiagramsCall ==
    /\ call_state = "called"
    /\ call_result' = InsertDiagrams(call_args.outcomes, call_args.load_ok, call_args.save_ok)
    /\ call_state' = "returned"
    /\ UNCHANGED <<pvars, call_args, requests>>

SpecInsert == InitInsert /\ [][InsertDiagramsCall]_vars

\* C26: insert_diagrams_into_presentation never raises; a failure inserting one
\* diagram does not prevent the attempt on the remaining ones; and whenever the
\* presentation file could be loaded, successful_insertions + failed_insertions =
\* total_diagrams with exactly one insertion_details entry per input diagram, in
\* input order.
C26_EveryDiagramAccounted ==
    call_state # "called" =>
        /\ call_state = "returned"
        /\ call_result.total_diagrams = Len(call_args.outcomes)
        /\ call_args.load_ok =>
              /\ call_result.successful_insertions + call_result.failed_insertions
                    = call_result.total_diagrams
              /\ Len(call_result.insertion_details) = Len(call_args.outcomes)
              /\ \A i \in 1..Len(call_args.outcomes) :
                    /\ call_result.insertion_details[i].diagram = i
                    /\ call_result.insertion_details[i].status = "success"
                          <=> call_args.outcomes[i] = "inserted"

\* the first insertion raised and the second diagram was inserted all the same
C26_Witness ==
    /\ call_state = "returned"
    /\ call_args.load_ok
    /\ Len(call_args.outcomes) >= 2
    /\ call_args.outcomes[1] = "raises"
    /\ call_args.outcomes[2] = "inserted"
    /\ call_result.failed_insertions >= 1
    /\ call_result.insertion_details[2].status = "success"


(***************************************************************************)
(* DiagramGenerator._apply_clustering on its own.  A dict is the sequence  *)
(* of its keys in insertion order; a cluster is the list of names it is    *)
(* given.                                                                  *)
(***************************************************************************)
MaxClusters == 2

ComponentMaps == {<<>>, <<"b">>, <<"c", "a">>, <<"a", "b", "c">>}

ClusterMemberLists ==
    {<<>>, <<"a">>, <<"c">>, <<"a", "b">>, <<"b", "a">>, <<"a", "a">>, <<"ghost", "c">>}

Clusterings == UNION {[1..n -> ClusterMemberLists] : n \in 0..MaxClusters}

\* dict.pop(key)
Pop(dict, key) == SelectSeq(dict, LAMBDA k : k # key)

\* dict.update(other): new keys go to the end, known keys keep their place
RECURSIVE DictUpdate(_, _)
DictUpdate(dict, other) ==
    IF other = <<>> THEN dict
    ELSE DictUpdate(IF Head(other) \in Range(dict) THEN dict ELSE Append(dict, Head(other)),
                    Tail(other))

\* the inner loop taking a member without removing it from the working set
RECURSIVE ConsumeMembersKeeping(_, _, _)
ConsumeMembersKeeping(component_names, unclustered, cluster_components) ==
    IF component_names = <<>>
    THEN [cluster_components |-> cluster_components, unclustered |-> unclustered]
    ELSE IF Head(component_names) \in Range(unclustered)
    THEN ConsumeMembersKeeping(Tail(component_names), unclustered,
                               Append(cluster_components, Head(component_names)))
    ELSE ConsumeMembersKeeping(Tail(component_names), unclustered, cluster_components)

\* for comp_name in component_names: if comp_name in unclustered: ... pop
RECURSIVE ConsumeMembers(_, _, _)
ConsumeMembers(component_names, unclustered, cluster_components) ==
    IF component_names = <<>>
    THEN [cluster_components |-> cluster_components, unclustered |-> unclustered]
    ELSE IF Head(component_names) \in Range(unclustered)
    THEN ConsumeMembers(Tail(component_names), Pop(unclustered, Head(component_names)),
                        Append(cluster_components, Head(component_names)))
    ELSE ConsumeMembers(Tail(component_names), unclustered, cluster_components)

\* for cluster_name, component_names in clustering.items()
RECURSIVE ClusterLoop(_, _, _)
ClusterLoop(clustering, i, st) ==
    IF i > Len(clustering) THEN st
    ELSE LET taken == ConsumeMembers(clustering[i], st.unclustered, <<>>) IN
         ClusterLoop(clustering, i + 1,
                     [clustered_components |->
                          DictUpdate(st.clustered_components, taken.cluster_components),
                      unclustered |-> taken.unclustered,
                      clusters |-> Append(st.clusters, taken.cluster_components)])

\* DiagramGenerator._apply_clustering: the returned map, and what each cluster took
ApplyClustering(components, clustering) ==
    LET st == ClusterLoop(clustering, 1,
                          [clustered_components |-> <<>>, unclustered |-> components,
                           clusters |-> <<>>])
    IN  [components |-> DictUpdate(st.clustered_components, st.unclustered),
         clusters   |-> st.clusters]

InitClustering ==
    /\ PipelineIdle
    /\ call_state = "called"
    /\ call_args \in [components : ComponentMaps, clustering : Clusterings]
    /\ call_result = None

ApplyClusteringCall ==
    /\ call_state = "called"
    /\ call_result' = ApplyClustering(call_args.components, call_args.clustering)
    /\ call_state' = "returned"
    /\ UNCHANGED <<pvars, call_args, requests>>

SpecClustering == InitClustering /\ [][ApplyClusteringCall]_vars

\* how many times a name occurs in a list
Occurrences(list, name) == Cardinality({j \in 1..Len(list) : list[j] = name})

\* the first cluster in map order that names a component
FirstNaming(name) ==
    CHOOSE i \in 1..Len(call_args.clustering) :
        /\ name \in Range(call_args.clustering[i])
        /\ \A j \in 1..(i - 1) : name \notin Range(call_args.clustering[j])

\* the clusters that name a component of the input
NamedBy(name) == {i \in 1..Len(call_args.clustering) : name \in Range(call_args.clustering[i])}

\* C27: _apply_clustering returns a map with exactly the names of its input, each
\* once (cluster members naming unknown components are ignored); each component is
\* consumed by at most one cluster, the first in map order that names it; components
\* named in no cluster stay at top level; and all clustered components precede the
\* unclustered ones in the result.
C27_ClusteringKeepsEveryComponent ==
    call_state = "returned" =>
        LET input  == call_args.components
            output == call_result.components
            taken  == call_result.clusters
        IN  /\ Range(output) = Range(input)
            /\ Len(output) = Len(input)
            /\ Len(taken) = Len(call_args.clustering)
            /\ \A i \in 1..Len(taken) : Range(taken[i]) \subseteq Range(input)
            /\ \A name \in Range(input) :
                  /\ \A i \in 1..Len(taken) :
                        Occurrences(taken[i], name) =
                            IF NamedBy(name) # {} /\ i = FirstNaming(name) THEN 1 ELSE 0
                  /\ NamedBy(name) = {} => name \in Range(output)
            /\ \A p \in 1..Len(output), q \in 1..Len(output) :
                  (p < q /\ NamedBy(output[q]) # {}) => NamedBy(output[p]) # {}

\* two clusters name component a, the first took it, and component c, named by
\* neither, comes last
C27_Witness ==
    /\ call_state = "returned"
    /\ call_args.components = <<"a", "b", "c">>
    /\ call_args.clustering = <<(<<"b", "a">>), (<<"a", "a">>)>>
    /\ call_result.clusters = <<(<<"b", "a">>), (<<>>)>>
    /\ call_result.components = <<"b", "a", "c">>


(***************************************************************************)
(* Where a diagram image is put on its slide: the rectangle computed at    *)
(* generation time, the layout-specific rectangles of the builder, and the *)
(* call that inserts the picture.  Lengths are in tenths of an inch.       *)
(***************************************************************************)
Rectangle(left, top, width, height) ==
    [left |-> left, top |-> top, width |-> width, height |-> height]

DiagramTypes == {"microservices", "data_pipeline", "cloud_architecture",
                 "database_schema", "sequence"}

LayoutNames == {"Title Slide", "Title and Content", "Content with Caption",
                "Two Content", "Blank", "Section Header"}

\* DiagramGenerator._calculate_slide_position
CalculateSlidePosition(diagram_type) ==
    CASE diagram_type = "data_pipeline"      -> Rectangle(5, 15, 90, 50)
      [] diagram_type = "cloud_architecture" -> Rectangle(5, 15, 90, 60)
      [] diagram_type = "database_schema"    -> Rectangle(10, 20, 80, 50)
      [] OTHER                               -> Rectangle(5, 15, 90, 55)

\* PresentationBuilder._optimize_diagram_positioning
OptimizeDiagramPositioning(slide_layout_name, diagram_type) ==
    LET base_position ==
            CASE slide_layout_name = "Title Slide"          -> Rectangle(10, 30, 80, 40)
              [] slide_layout_name = "Content with Caption" -> Rectangle(5, 15, 60, 55)
              [] slide_layout_name = "Two Content"          -> Rectangle(50, 15, 45, 55)
              [] slide_layout_name = "Blank"                -> Rectangle(5, 10, 90, 65)
              [] OTHER                                      -> Rectangle(5, 18, 90, 50)
    IN  CASE diagram_type = "microservices" ->
                [base_position EXCEPT !.height = 55]
          [] diagram_type = "data_pipeline" ->
                [base_position EXCEPT !.width = 95, !.height = 45]
          [] diagram_type = "cloud_architecture" ->
                [base_position EXCEPT !.width = 90, !.height = 60]
          [] diagram_type = "database_schema" ->
                [base_position EXCEPT !.width = 70, !.height = 50]
          [] OTHER -> base_position

NoRectangle == Rectangle(0, 0, 0, 0)

\* PresentationBuilder.add_diagram_as_dedicated_slide: whether the picture was
\* added, and the rectangle handed to add_picture
AddDiagramAsDedicatedSlide(diagram, slide_layout_name, image_exists, picture_ok) ==
    IF ~image_exists THEN [added |-> FALSE, rectangle |-> NoRectangle]
    ELSE [added |-> picture_ok, rectangle |-> Rectangle(5, 15, 90, 55)]

InitPosition ==
    /\ PipelineIdle
    /\ call_state = "called"
    /\ call_args \in [diagram_type : DiagramTypes, slide_layout_name : LayoutNames,
                      image_exists : BOOLEAN, picture_ok : BOOLEAN]
    /\ call_result = None

\* generate_diagram fixes the diagram's position; the builder then inserts it
InsertPictureCall ==
    /\ call_state = "called"
    /\ LET diagram == [diagram_type |-> call_args.diagram_type,
                       position |-> CalculateSlidePosition(call_args.diagram_type)]
       IN  call_result' =
               [diagram  |-> diagram,
                inserted |-> AddDiagramAsDedicatedSlide(diagram, call_args.slide_layout_name,
                                                        call_args.image_exists,
                                                        call_args.picture_ok)]
    /\ call_state' = "returned"
    /\ UNCHANGED <<pvars, call_args, requests>>

SpecPosition == InitPosition /\ [][InsertPictureCall]_vars

\* C28 as stated: the rectangle at which a diagram image is inserted is the
\* placement rectangle computed for the diagram at generation time, or that
\* rectangle as overridden for the slide layout in use.
C28_AsStated ==
    (call_state = "returned" /\ call_result.inserted.added) =>
        \/ call_result.inserted.rectangle = call_result.diagram.position
        \/ call_result.inserted.rectangle =
               OptimizeDiagramPositioning(call_args.slide_layout_name,
                                          call_result.diagram.diagram_type)


(***************************************************************************)
(* TemplateManager: the layout mapping built from a template's layouts and *)
(* the lookup of a layout index.  A template is the sequence of its layout *)
(* names, already lower-cased; indexes count from 0 as in the code.        *)
(***************************************************************************)
MaxLayouts == 3

TemplateLayoutNames ==
    {"title slide", "title and content", "section header", "comparison",
     "blank", "content with caption", "bullet list", "diagram layout"}

\* the layout names that contain a word
Containing(word) ==
    CASE word = "title"   -> {"title slide", "title and content"}
      [] word = "slide"   -> {"title slide"}
      [] word = "content" -> {"title and content", "content with caption"}
      [] word = "bullet"  -> {"bullet list"}
      [] word = "blank"   -> {"blank"}
      [] word = "section" -> {"section header"}
      [] word = "comparison" -> {"comparison"}
      [] word = "caption" -> {"content with caption"}
      [] word = "diagram" -> {"diagram layout"}
      [] OTHER            -> {}

\* the keys _map_slide_layouts sets for one layout
LayoutKeys(layout_name) ==
    {layout_name}
    \cup (IF layout_name \in Containing("title") \cap Containing("slide") THEN {"title"}
          ELSE IF layout_name \in Containing("title") \cap Containing("content")
          THEN {"title_content"}
          ELSE IF layout_name \in Containing("content") \cup Containing("bullet")
          THEN {"bullet"}
          ELSE IF layout_name \in Containing("blank") THEN {"blank"}
          ELSE IF layout_name \in Containing("section") THEN {"section"}
          ELSE IF layout_name \in Containing("two content") \cup Containing("comparison")
          THEN {"two_content"}
          ELSE IF layout_name \in Containing("picture") \cup Containing("caption")
          THEN {"picture_caption"}
          ELSE {})
    \cup (IF layout_name \in Containing("diagram") THEN {"diagram"}
          ELSE IF layout_name \in Containing("split") THEN {"split"}
          ELSE {})

\* TemplateManager._map_slide_layouts: a later layout overwrites an earlier key
MapSlideLayouts(slide_layouts) ==
    LET keys == UNION {LayoutKeys(slide_layouts[i]) : i \in 1..Len(slide_layouts)} IN
    [k \in keys |->
        (CHOOSE i \in 1..Len(slide_layouts) :
            /\ k \in LayoutKeys(slide_layouts[i])
            /\ \A j \in (i + 1)..Len(slide_layouts) : k \notin LayoutKeys(slide_layouts[j]))
        - 1]

\* dict.get(key, default)
GetOr(mapping, key, default) == IF key \in DOMAIN mapping THEN mapping[key] ELSE default

\* layout_type.lower() on the layout types the model requests
LowerLayout(layout_type) ==
    CASE layout_type = "Bullet"      -> "bullet"
      [] layout_type = "Title Slide" -> "title slide"
      [] OTHER                       -> layout_type

\* TemplateManager.get_layout_index
GetLayoutIndex(mapping, requested) ==
    LET layout_type == LowerLayout(requested) IN
    IF layout_type \in DOMAIN mapping THEN mapping[layout_type]
    ELSE IF layout_type = "title" THEN GetOr(mapping, "title", 0)
    ELSE IF layout_type \in {"bullet", "content"} THEN GetOr(mapping, "bullet", 1)
    ELSE IF layout_type = "blank" THEN GetOr(mapping, "blank", 6)
    ELSE IF layout_type = "diagram"
    THEN GetOr(mapping, "diagram", GetOr(mapping, "blank", GetOr(mapping, "two_content", 6)))
    ELSE IF layout_type = "split"
    THEN GetOr(mapping, "split", GetOr(mapping, "two_content", 1))
    ELSE 1

RequestedLayoutTypes ==
    {"title", "bullet", "Bullet", "content", "blank", "diagram", "split", "chart",
     "Title Slide"}

\* templates of at least one layout, the layouts' names distinct
Templates ==
    {t \in UNION {[1..n -> TemplateLayoutNames] : n \in 1..MaxLayouts} :
        \A i \in 1..Len(t), j \in 1..Len(t) : i # j => t[i] # t[j]}

InitLayout ==
    /\ PipelineIdle
    /\ call_state = "called"
    /\ call_args \in [slide_layouts : Templates, layout_type : RequestedLayoutTypes]
    /\ call_result = None

GetLayoutIndexCall ==
    /\ call_state = "called"
    /\ call_result' = [index |-> GetLayoutIndex(MapSlideLayouts(call_args.slide_layouts),
                                                call_args.layout_type)]
    /\ call_state' = "returned"
    /\ UNCHANGED <<pvars, call_args, requests>>

SpecLayout == InitLayout /\ [][GetLayoutIndexCall]_vars

\* C29 as stated: for every requested layout type, get_layout_index returns the
\* index mapped to that exact lower-cased name when the template has it; otherwise
\* the index of the 'bullet' layout when the template has one; otherwise index 1.
C29_AsStated ==
    call_state = "returned" =>
        LET mapping     == MapSlideLayouts(call_args.slide_layouts)
            layout_type == LowerLayout(call_args.layout_type)
        IN  call_result.index =
                IF layout_type \in DOMAIN mapping THEN mapping[layout_type]
                ELSE IF "bullet" \in DOMAIN mapping THEN mapping["bullet"]
                ELSE 1


(***************************************************************************)
(* Two generate_presentation calls overlapping on one orchestrator.  The   *)
(* calls run on one event loop: a call runs without interruption from one  *)
(* await to the next, and at an await the other call may run.  What they   *)
(* share is self.current_status.                                           *)
(***************************************************************************)
Callers == {1, 2}

\* the stages that await their work, with the progress and message given to
\* _update_status
AwaitedStages ==
    <<[status |-> "processing_documents",  progress |-> 10,
       message |-> <<"Processing uploaded documents...">>],
      [status |-> "analyzing_documents",   progress |-> 20,
       message |-> <<"Analyzing document content...">>],
      [status |-> "analyzing_project",     progress |-> 30,
       message |-> <<"Analyzing project requirements...">>],
      [status |-> "generating_diagrams",   progress |-> 50,
       message |-> <<"Generating architecture diagrams...">>],
      [status |-> "generating_content",    progress |-> 70,
       message |-> <<"Generating slide content...">>],
      [status |-> "building_presentation", progress |-> 85,
       message |-> <<"Creating PowerPoint presentation...">>],
      [status |-> "inserting_diagrams",    progress |-> 95,
       message |-> <<"Inserting diagrams into presentation...">>]>>

\* the stages whose awaited work can raise to the top-level handler; 0: none does
RaisingStages == {0, 6}

\* presentation_path.name and str(e) of a call
PathName(r) == IF r = 1 THEN "proposal_1.pptx" ELSE "proposal_2.pptx"

ErrorText(r) == IF r = 1 THEN "build failed (1)" ELSE "build failed (2)"

CompletedMessage(r) == <<"Presentation created successfully: ", PathName(r)>>

ErrorMessage(r) == <<"Presentation generation failed: ", ErrorText(r)>>

InitConcurrent ==
    /\ uploaded_files = <<>>
    /\ target_slide_count = 8
    /\ has_callback = TRUE
    /\ enable_diagram_generation = TRUE
    /\ pc = "concurrent"
    /\ current_status = InitialStatus
    /\ observed = <<>>
    /\ extracted_content = <<>>
    /\ document_analysis = None
    /\ project_analysis = None
    /\ diagram_generation_result = None
    /\ generation_result = None
    /\ presentation_path = None
    /\ diagram_insertion_results = None
    /\ exc = NoException
    /\ result = None
    /\ failed = {}
    /\ call_state = "none"
    /\ call_args = None
    /\ call_result = None
    /\ requests \in [Callers -> [stage : {0}, raises_at : RaisingStages,
                                 delivered : {<<>>}, result : {None}]]

\* everything but the progress record and the calls' own state
unshared == <<inputs, pc, observed, extracted_content, document_analysis, project_analysis,
              diagram_generation_result, generation_result, presentation_path,
              diagram_insertion_results, exc, result, failed,
              call_state, call_args, call_result>>

\* the record read before the step's own update: the read is separated from the
\* update by an await
StatusReadAcrossAwait == current_status

\* self.current_status as read right after self._update_status, with no await in
\* between: by progress_callback(self.current_status) and by the returned dict
StatusRead == current_status'

Running(r) ==
    /\ requests[r].result = None
    /\ requests[r].stage # requests[r].raises_at \/ requests[r].stage = 0

\* call r resumes, sets the next stage, notifies its observer and awaits the
\* stage's work
EnterStage(r) ==
    /\ Running(r)
    /\ requests[r].stage < Len(AwaitedStages)
    /\ LET s == AwaitedStages[requests[r].stage + 1] IN
       /\ current_status' = UpdateStatus(s.status, s.progress, s.message)
       /\ requests' = [requests EXCEPT ![r].delivered = Append(@, StatusRead),
                                       ![r].stage = @ + 1]
    /\ UNCHANGED unshared

\* call r resumes after its last await, completes and returns its results
CompleteCall(r) ==
    /\ Running(r)
    /\ requests[r].stage = Len(AwaitedStages)
    /\ LET status == UpdateStatus("completed", 100, CompletedMessage(r)) IN
       /\ current_status' = status
       /\ requests' = [requests EXCEPT
             ![r].delivered = Append(@, StatusRead),
             ![r].stage = @ + 1,
             ![r].result = [success |-> TRUE, presentation_path |-> PathName(r),
                            processing_status |-> StatusRead]]
    /\ UNCHANGED unshared

\* the work call r awaited raised: the top-level handler runs and returns
HandleCallError(r) ==
    /\ requests[r].result = None
    /\ requests[r].stage # 0
    /\ requests[r].stage = requests[r].raises_at
    /\ LET status == UpdateStatus("error", 0, ErrorMessage(r)) IN
       /\ current_status' = status
       /\ requests' = [requests EXCEPT
             ![r].delivered = Append(@, StatusRead),
             ![r].result = [success |-> FALSE, error |-> ErrorMessage(r),
                            processing_status |-> StatusRead]]
    /\ UNCHANGED unshared

NextConcurrent ==
    \E r \in Callers : EnterStage(r) \/ CompleteCall(r) \/ HandleCallError(r)

SpecConcurrent == InitConcurrent /\ [][NextConcurrent]_vars

\* the stage call r was in when it made its i-th notification
NotifiedStage(r, i) ==
    IF i <= Len(AwaitedStages) /\ (requests[r].raises_at = 0 \/ i <= requests[r].raises_at)
    THEN AwaitedStages[i].status
    ELSE IF requests[r].raises_at = 0 THEN "completed" ELSE "error"

\* C30: when two generate_presentation calls overlap on one orchestrator, the
\* status each call delivers to its own observer names that call's own stage, and
\* the processing_status it returns is its own outcome: 'completed' with its own
\* file's name when it succeeded, 'error' with its own error when it failed;
\* never the other call's.
C30_OwnStatusDelivered ==
    pc = "concurrent" =>
        \A r \in Callers :
            /\ \A i \in 1..Len(requests[r].delivered) :
                  requests[r].delivered[i].status = NotifiedStage(r, i)
            /\ requests[r].result # None =>
                  LET returned == requests[r].result.processing_status IN
                  /\ returned = requests[r].delivered[Len(requests[r].delivered)]
                  /\ requests[r].result.success =>
                        /\ returned.status = "completed"
                        /\ returned.message = CompletedMessage(r)
                  /\ ~requests[r].result.success =>
                        /\ returned.status = "error"
                        /\ returned.message = ErrorMessage(r)

\* both calls are under way, the shared record holds the second call's stage, and
\* the first call then returns its own failure
C30_Witness ==
    /\ pc = "concurrent"
    /\ requests[1].result # None
    /\ ~requests[1].result.success
    /\ requests[1].result.processing_status.message = ErrorMessage(1)
    /\ requests[2].result = None
    /\ requests[2].stage = 3
    /\ Len(requests[1].delivered) = 7
    /\ requests[1].delivered[6].status = "building_presentation"

====
